---- MODULE Spec2Model ----
(***************************************************************************)
(* Model of the diagnostic pipeline of design-ai-linter.                   *)
(*                                                                         *)
(* Part 1: runAIRules (engine/aiRunner.ts): provider and credential        *)
(* resolution, the per-rule loop, the model fallback loop of each          *)
(* provider, error classification, fence stripping, JSON parsing, array    *)
(* coercion, schema validation, issue mapping and the per-rule catch.      *)
(*                                                                         *)
(* Texts (response payloads, error messages) are sequences of lexemes, so  *)
(* that String.includes, String.replace and JSON.parse are computed and    *)
(* not assumed.                                                            *)
(***************************************************************************)
EXTENDS Integers, Sequences, FiniteSets, TLC

(* ------------------------------ bounds --------------------------------- *)
MaxRules == 2
MaxIssues == 2

(* ------------------------------ helpers -------------------------------- *)
Undef == "undefined"
NoKey == ""
NoModel == ""

Includes(msg, lex) == \E i \in 1..Len(msg) : msg[i] = lex

RECURSIVE JoinComma(_)
JoinComma(items) ==
    IF Len(items) = 0 THEN <<>>
    ELSE IF Len(items) = 1 THEN <<items[1]>>
    ELSE <<items[1], ",">> \o JoinComma(Tail(items))

SeqsUpTo(S, n) == UNION {[1..k -> S] : k \in 0..n}

(* --------------------------- JSON documents ---------------------------- *)
(* An entry of an issues array, as the model returns it.  "undefined"     *)
(* stands for a field the entry does not have.  E1 is the entry of the     *)
(* runner's test, E2 an entry with a message and a line only, E3 an entry  *)
(* with every field the mapping reads plus a ruleId and a severity of its  *)
(* own, E4 an entry whose problem is the empty string, with a reason and   *)
(* a message, Enull the JSON null entry.                                   *)
NoFields ==
    [t |-> "obj", tokenName |-> Undef, problem |-> Undef, message |-> Undef,
     suggestion |-> Undef, line |-> Undef, file |-> Undef, reason |-> Undef,
     suggestedToken |-> Undef, fixedCode |-> Undef, impact |-> Undef,
     ruleId |-> Undef, severity |-> Undef]

ElemTable ==
    [E1 |-> [NoFields EXCEPT !.tokenName = "color.primary", !.problem = "P1",
                             !.suggestion = "S1"],
     E2 |-> [NoFields EXCEPT !.message = "M2", !.line = "3"],
     E3 |-> [NoFields EXCEPT !.tokenName = "spacing.md", !.problem = "P3",
                             !.suggestion = "S3", !.line = "7", !.file = "a.css",
                             !.reason = "R3", !.suggestedToken = "spacing.lg",
                             !.fixedCode = "F3", !.impact = "High",
                             !.ruleId = "response-rule", !.severity = "error"],
     E4 |-> [NoFields EXCEPT !.problem = "", !.reason = "R4", !.message = "M4"],
     Enull |-> [NoFields EXCEPT !.t = "null"]]

ElemNames == {"E1", "E2", "E3", "E4", "Enull"}

IssueArrays == SeqsUpTo(ElemNames, MaxIssues)

Doc(t, iss, items) == [t |-> t, iss |-> iss, items |-> items]

JsonUndefined == Doc("undefined", "absent", <<>>)
JsonNull == Doc("null", "absent", <<>>)
BareArray(A) == Doc("arr", "absent", A)
IssuesObject(A) == Doc("obj", "array", A)
EmptyObject == Doc("obj", "absent", <<>>)
IssuesNotArray == Doc("obj", "string", <<>>)

JsonDocs ==
    {JsonNull, EmptyObject, IssuesNotArray}
        \cup {BareArray(A) : A \in IssueArrays}
        \cup {IssuesObject(A) : A \in IssueArrays}

(* JSON.stringify of a document, as a sequence of lexemes.                 *)
Stringify(d) ==
    CASE d.t = "null" -> <<"null">>
      [] d.t = "arr" -> <<"[">> \o JoinComma(d.items) \o <<"]">>
      [] d.t = "obj" /\ d.iss = "array" ->
            <<"{", "issues", ":", "[">> \o JoinComma(d.items) \o <<"]", "}">>
      [] d.t = "obj" /\ d.iss = "string" -> <<"{", "issues", ":", "str", "}">>
      [] OTHER -> <<"{", "}">>

RECURSIVE TrimLeft(_)
TrimLeft(text) ==
    IF Len(text) > 0 /\ text[1] = "\n" THEN TrimLeft(Tail(text)) ELSE text

RECURSIVE TrimRight(_)
TrimRight(text) ==
    IF Len(text) > 0 /\ text[Len(text)] = "\n"
    THEN TrimRight(SubSeq(text, 1, Len(text) - 1)) ELSE text

ParseFailed == Doc("SyntaxError", "absent", <<>>)

(* The entries of a comma-separated list of array items.                   *)
IsItemList(inner) ==
    \/ Len(inner) = 0
    \/ /\ Len(inner) % 2 = 1
       /\ \A k \in 1..Len(inner) :
             IF k % 2 = 1 THEN inner[k] \in ElemNames ELSE inner[k] = ","

Items(inner) == [k \in 1..((Len(inner) + 1) \div 2) |-> inner[2 * k - 1]]

(* JSON.parse: surrounding whitespace is skipped; a text that is not the   *)
(* serialization of a document is a SyntaxError.                           *)
JsonParse(text) ==
    LET body == TrimRight(TrimLeft(text))
        n == Len(body)
    IN IF body = <<"null">> THEN JsonNull
       ELSE IF n >= 2 /\ body[1] = "[" /\ body[n] = "]" /\ IsItemList(SubSeq(body, 2, n - 1))
            THEN BareArray(Items(SubSeq(body, 2, n - 1)))
       ELSE IF body = <<"{", "}">> THEN EmptyObject
       ELSE IF body = <<"{", "issues", ":", "str", "}">> THEN IssuesNotArray
       ELSE IF /\ n >= 6
               /\ SubSeq(body, 1, 4) = <<"{", "issues", ":", "[">>
               /\ SubSeq(body, n - 1, n) = <<"]", "}">>
               /\ IsItemList(SubSeq(body, 5, n - 2))
            THEN IssuesObject(Items(SubSeq(body, 5, n - 2)))
       ELSE ParseFailed

(* The lexemes of a markdown code fence: three backquotes followed by     *)
(* json, and three backquotes.                                             *)
FenceJson == "FENCE-json"
Fence == "FENCE"

Fenced(text) == <<FenceJson, "\n">> \o text \o <<"\n", Fence>>

(* The two String.replace calls of the Gemini branch: a leading fence     *)
(* opener followed by a newline, then a trailing newline and fence.       *)
StripFences(text) ==
    LET a == IF Len(text) >= 2 /\ text[1] = FenceJson /\ text[2] = "\n"
             THEN SubSeq(text, 3, Len(text)) ELSE text
    IN IF Len(a) >= 2 /\ a[Len(a) - 1] = "\n" /\ a[Len(a)] = Fence
       THEN SubSeq(a, 1, Len(a) - 2) ELSE a

(* ------------------------------ errors --------------------------------- *)
(* A thrown value.  k is its JavaScript shape: "object" (an Error or any   *)
(* object: message, code, status properties, each possibly absent),        *)
(* "nested" ({error: {message, code}}), "string", "undefined", "null".     *)
(* msg is the message text (<<>>: absent or empty), code and status are    *)
(* "" when absent.  issues is the shape of an issues property: "none",     *)
(* "zod" (entries with a path array) or "nopath" (entries without path).   *)
Thrown(k, msg, code, status, issues) ==
    [k |-> k, msg |-> msg, code |-> code, status |-> status, issues |-> issues]

NewError(msg) == Thrown("object", msg, "", "", "none")
TypeError == NewError(<<"TypeError">>)
SyntaxError == NewError(<<"Unexpected", "token">>)
ThrownUndefined == Thrown("undefined", <<>>, "", "", "none")
ThrownNull == Thrown("null", <<>>, "", "", "none")
NoError == Thrown("none", <<>>, "", "", "none")

(* JSON.stringify(error) for a value without a usable message.             *)
StringifyThrown(e) ==
    IF e.k = "null" THEN <<"null">>
    ELSE <<"{">>
         \o (IF e.status # "" THEN <<"status", ":", e.status>> ELSE <<>>)
         \o (IF e.code # "" THEN <<"code", ":", e.code>> ELSE <<>>)
         \o <<"}">>

(* error.message as the template strings and new Error(...) read it.       *)
MessageProp(e) == IF e.k = "object" THEN e.msg ELSE <<>>

Truthy(e) == ~(e.k \in {"undefined", "null", "none"}) /\ ~(e.k = "string" /\ e.msg = <<>>)

Extracted(msg, code, crash) == [msg |-> msg, code |-> code, crash |-> crash]

(* aiRunner.ts 108-123: errorMsg and errorCode of the OpenAI branch.  crash *)
(* is TRUE when errorMsg is undefined, so that errorMsg.includes throws.   *)
ExtractOpenAI(e) ==
    IF e.k = "nested" /\ e.msg # <<>> THEN Extracted(e.msg, e.code, FALSE)
    ELSE IF e.k = "object" /\ e.status # "" THEN Extracted(e.msg, e.status, FALSE)
    ELSE IF e.k = "object" /\ e.msg # <<>> THEN Extracted(e.msg, e.code, FALSE)
    ELSE IF e.k = "string" THEN Extracted(e.msg, "", FALSE)
    ELSE IF e.k = "undefined" THEN Extracted(<<>>, "", TRUE)
    ELSE Extracted(StringifyThrown(e), "", FALSE)

(* aiRunner.ts 194-206: the Gemini branch has no error.status case.        *)
ExtractGemini(e) ==
    IF e.k = "nested" /\ e.msg # <<>> THEN Extracted(e.msg, e.code, FALSE)
    ELSE IF e.k = "object" /\ e.msg # <<>> THEN Extracted(e.msg, e.code, FALSE)
    ELSE IF e.k = "string" THEN Extracted(e.msg, "", FALSE)
    ELSE IF e.k = "undefined" THEN Extracted(<<>>, "", TRUE)
    ELSE Extracted(StringifyThrown(e), "", FALSE)

isQuotaError(x) ==
    \/ x.code = "429"
    \/ Includes(x.msg, "429")
    \/ Includes(x.msg, "quota")
    \/ Includes(x.msg, "exceeded")
    \/ Includes(x.msg, "rate limit")

isModelNotFoundErrorOpenAI(x) ==
    \/ Includes(x.msg, "not found")
    \/ Includes(x.msg, "not available")
    \/ Includes(x.msg, "invalid_model")
    \/ Includes(x.msg, "model_not_found")

isModelNotFoundErrorGemini(x) ==
    \/ Includes(x.msg, "404")
    \/ Includes(x.msg, "not found")
    \/ Includes(x.msg, "not available")
    \/ Includes(x.msg, "not supported")
    \/ Includes(x.msg, "NOT_FOUND")

Extract(p, e) == IF p = "openai" THEN ExtractOpenAI(e) ELSE ExtractGemini(e)

isModelNotFoundError(p, x) ==
    IF p = "openai" THEN isModelNotFoundErrorOpenAI(x) ELSE isModelNotFoundErrorGemini(x)

(* The errors a provider request throws: the error objects of the two      *)
(* client libraries (status, code, message), the nested and the string     *)
(* formats the catch blocks provide for.                                   *)
ProviderErrors ==
    {Thrown("object", <<"Too", "Many", "Requests">>, "", "429", "none"),
     Thrown("object", <<"You", "exceeded", "your", "current", "quota">>, "", "", "none"),
     Thrown("object", <<"rate limit", "reached">>, "", "", "none"),
     Thrown("object", <<"model", "does", "not", "exist">>, "", "404", "none"),
     Thrown("object", <<"model", "not found">>, "", "", "none"),
     Thrown("object", <<"model", "not supported">>, "", "", "none"),
     Thrown("nested", <<"Resource", "exhausted">>, "429", "", "none"),
     Thrown("object", <<"Internal", "error">>, "", "500", "none"),
     Thrown("string", <<"boom">>, "", "", "none")}

(* ------------------------------- rules --------------------------------- *)
RuleIds == <<"ai-semantic-naming", "ai-spacing-consistency", "ai-design-complexity", "custom-rule">>
RuleSeverities == <<"warn", "error", "info", "warn">>

(* schema is the kind of the rule's schema object: "zod" throws a ZodError *)
(* (issues with path arrays); "custom" is a schema object with a parse     *)
(* entry point of another library, whose error carries issues without a   *)
(* path.                                                                   *)
SchemaKinds == {"zod", "custom"}

ZodError == Thrown("object", <<"Invalid", "input">>, "", "", "zod")
CustomSchemaError == Thrown("object", <<"Invalid", "input">>, "", "", "nopath")

SchemaError(rule) == IF rule.schema = "zod" THEN ZodError ELSE CustomSchemaError

(* z.object({...}) of an issue entry: problem and reason are required, the *)
(* other declared fields are optional, keys that are not declared are      *)
(* stripped.                                                               *)
ElemValid(e) == e.t = "obj" /\ e.problem # Undef /\ e.reason # Undef

StripUnknown(e) == [e EXCEPT !.message = Undef, !.ruleId = Undef, !.severity = Undef]

SchemaValid(doc) ==
    /\ doc.t = "obj"
    /\ doc.iss = "array"
    /\ \A i \in 1..Len(doc.items) : ElemValid(ElemTable[doc.items[i]])

(* Variant of CoerceArray that leaves a bare array as it is.               *)
CoerceArrayNever(doc) == doc

(* aiRunner.ts 249-254 *)
CoerceArray(doc) == IF doc.t = "arr" THEN IssuesObject(doc.items) ELSE doc

Validated(ok, err, items) == [ok |-> ok, err |-> err, items |-> items]

(* aiRunner.ts 256-269: schema.parse and the salvage of the issues array.  *)
Validate(rule, doc) ==
    IF SchemaValid(doc)
    THEN Validated(TRUE, NoError, [i \in 1..Len(doc.items) |-> StripUnknown(ElemTable[doc.items[i]])])
    ELSE IF doc.t = "obj" /\ doc.iss = "array"
    THEN Validated(TRUE, NoError, [i \in 1..Len(doc.items) |-> ElemTable[doc.items[i]]])
    ELSE Validated(FALSE, SchemaError(rule), <<>>)

TruthyStr(v) == v # Undef /\ v # ""

(* Variant of ToDiagnostic that prefers a severity found in the entry.      *)
ToDiagnosticEntrySeverity(rule, e) ==
    [ruleId |-> rule.id,
     severity |-> IF e.severity # Undef THEN e.severity ELSE rule.severity,
     message |-> IF TruthyStr(e.problem) THEN e.problem
                 ELSE IF TruthyStr(e.message) THEN e.message ELSE "",
     tokenName |-> e.tokenName,
     suggestion |-> e.suggestion,
     file |-> e.file,
     line |-> IF e.line # Undef THEN e.line ELSE "null",
     problem |-> e.problem,
     reason |-> e.reason,
     suggestedToken |-> e.suggestedToken,
     fixedCode |-> e.fixedCode,
     impact |-> e.impact]

(* Variant of ToDiagnostic that takes the message from problem alone.      *)
ToDiagnosticProblemOnly(rule, e) ==
    [ruleId |-> rule.id,
     severity |-> rule.severity,
     message |-> IF TruthyStr(e.problem) THEN e.problem ELSE "",
     tokenName |-> e.tokenName,
     suggestion |-> e.suggestion,
     file |-> e.file,
     line |-> IF e.line # Undef THEN e.line ELSE "null",
     problem |-> e.problem,
     reason |-> e.reason,
     suggestedToken |-> e.suggestedToken,
     fixedCode |-> e.fixedCode,
     impact |-> e.impact]

(* aiRunner.ts 273-287 *)
ToDiagnostic(rule, e) ==
    [ruleId |-> rule.id,
     severity |-> rule.severity,
     message |-> IF TruthyStr(e.problem) THEN e.problem
                 ELSE IF TruthyStr(e.message) THEN e.message ELSE "",
     tokenName |-> e.tokenName,
     suggestion |-> e.suggestion,
     file |-> e.file,
     line |-> IF e.line # Undef THEN e.line ELSE "null",
     problem |-> e.problem,
     reason |-> e.reason,
     suggestedToken |-> e.suggestedToken,
     fixedCode |-> e.fixedCode,
     impact |-> e.impact]

(* Index of the first entry whose property access throws (a null entry),   *)
(* or Len + 1 when there is none.                                          *)
FirstBad(items) ==
    LET bad == {i \in 1..Len(items) : items[i].t = "null"}
    IN IF bad = {} THEN Len(items) + 1 ELSE CHOOSE i \in bad : \A j \in bad : i <= j

(* aiRunner.ts 271-289: diagnostics are pushed one by one, so the entries  *)
(* before a throwing entry have already been pushed.                       *)
MapIssues(rule, items) ==
    LET n == FirstBad(items)
    IN [diags |-> [i \in 1..(n - 1) |-> ToDiagnostic(rule, items[i])],
        err |-> IF n <= Len(items) THEN TypeError ELSE NoError]

(* aiRunner.ts 290-314: the catch block reads error.message and walks      *)
(* error.issues; it throws itself on undefined/null and on an issues       *)
(* entry without a path.                                                   *)
CatchThrows(e) == e.k \in {"undefined", "null"} \/ e.issues = "nopath"

(* --------------------------- model lists ------------------------------- *)
OpenAIModels == <<"gpt-4o", "gpt-4-turbo", "gpt-4-turbo-preview", "gpt-3.5-turbo">>
GeminiModels == <<"gemini-3-pro-preview", "gemini-2.5-flash", "gemini-1.5-flash", "gemini-pro">>

(* Variant of ModelNames with the first two OpenAI models exchanged.        *)
ModelNamesSwapped(p, pinned) ==
    IF pinned # NoModel THEN <<pinned>>
    ELSE IF p = "openai"
         THEN <<"gpt-4-turbo", "gpt-4o", "gpt-4-turbo-preview", "gpt-3.5-turbo">>
         ELSE GeminiModels

ModelNames(p, pinned) ==
    IF pinned # NoModel THEN <<pinned>>
    ELSE IF p = "openai" THEN OpenAIModels ELSE GeminiModels

(* ------------------------ one model attempt ---------------------------- *)
NoReply == [kind |-> "none", text |-> <<>>, err |-> NoError]
Replied(text) == [kind |-> "text", text |-> text, err |-> NoError]
Failed(e) == [kind |-> "error", text |-> <<>>, err |-> e]

ResponseTexts ==
    {<<>>, <<"Invalid", "JSON">>}
        \cup {Stringify(d) : d \in JsonDocs}
        \cup {Fenced(Stringify(d)) : d \in JsonDocs}

(* The texts of the runs with several rules.                               *)
CoreTexts ==
    {<<>>, <<"Invalid", "JSON">>,
     Stringify(EmptyObject),
     Stringify(IssuesObject(<<>>)),
     Stringify(IssuesObject(<<"E1">>)),
     Stringify(BareArray(<<"E1">>)),
     Fenced(Stringify(IssuesObject(<<>>)))}

Outcomes(texts) == {Replied(t) : t \in texts} \cup {Failed(e) : e \in ProviderErrors}

Attempted(kind, json, err, log, last) ==
    [kind |-> kind, json |-> json, err |-> err, log |-> log, last |-> last]

(* Variant of InnerCatch that rethrows every error that is neither a       *)
(* quota nor a model-unavailable error, pinned model or not.               *)
InnerCatchRethrows(p, pinned, model, e, prev) ==
    LET x == Extract(p, e)
        last == IF p = "gemini" THEN e ELSE prev
    IN IF x.crash THEN Attempted("throw", JsonUndefined, TypeError, "none", last)
       ELSE IF isQuotaError(x) THEN Attempted("continue", JsonUndefined, NoError, "quota-next", last)
       ELSE IF isModelNotFoundError(p, x)
            THEN Attempted("continue", JsonUndefined, NoError, "unavailable-next", last)
       ELSE Attempted("throw", JsonUndefined,
                      NewError(<<"model", model, "error:">> \o x.msg), "none", last)

(* The catch block of one attempt (aiRunner.ts 106-156 and 191-240).       *)
(* last is the value of lastError after the block: only the Gemini branch  *)
(* records it.                                                             *)
InnerCatch(p, pinned, model, e, prev) ==
    LET x == Extract(p, e)
        last == IF p = "gemini" THEN e ELSE prev
    IN IF x.crash THEN Attempted("throw", JsonUndefined, TypeError, "none", last)
       ELSE IF isQuotaError(x) THEN Attempted("continue", JsonUndefined, NoError, "quota-next", last)
       ELSE IF isModelNotFoundError(p, x)
            THEN Attempted("continue", JsonUndefined, NoError, "unavailable-next", last)
       ELSE IF pinned # NoModel
            THEN Attempted("throw", JsonUndefined,
                           NewError(<<"model", model, "error:">> \o x.msg), "none", last)
       ELSE Attempted("continue", JsonUndefined, NoError, "error-next", last)

(* Variant of AttemptOpenAI that takes a response that does not parse as   *)
(* a success with no content.                                              *)
AttemptOpenAIUnparsedSucceeds(pinned, model, o, prev) ==
    IF o.kind = "error" THEN InnerCatch("openai", pinned, model, o.err, prev)
    ELSE IF o.text = <<>>
         THEN IF pinned # NoModel
              THEN InnerCatch("openai", pinned, model,
                              NewError(<<"model", model, "returned", "empty", "response">>), prev)
              ELSE Attempted("continue", JsonUndefined, NoError, "empty-next", prev)
    ELSE IF JsonParse(o.text) = ParseFailed
         THEN Attempted("success", EmptyObject, NoError, "model-used", prev)
    ELSE Attempted("success", JsonParse(o.text), NoError, "model-used", prev)

(* aiRunner.ts 85-105 *)
AttemptOpenAI(pinned, model, o, prev) ==
    IF o.kind = "error" THEN InnerCatch("openai", pinned, model, o.err, prev)
    ELSE IF o.text = <<>>
         THEN IF pinned # NoModel
              THEN InnerCatch("openai", pinned, model,
                              NewError(<<"model", model, "returned", "empty", "response">>), prev)
              ELSE Attempted("continue", JsonUndefined, NoError, "empty-next", prev)
    ELSE IF JsonParse(o.text) = ParseFailed
         THEN InnerCatch("openai", pinned, model, SyntaxError, prev)
    ELSE Attempted("success", JsonParse(o.text), NoError, "model-used", prev)

(* aiRunner.ts 172-190 *)
AttemptGemini(pinned, model, o, prev) ==
    IF o.kind = "error" THEN InnerCatch("gemini", pinned, model, o.err, prev)
    ELSE LET text == StripFences(o.text)
         IN IF text = <<>>
            THEN InnerCatch("gemini", pinned, model,
                            NewError(<<"Empty", "response", "from", "Gemini", "API">>), prev)
            ELSE IF JsonParse(text) = ParseFailed
                 THEN InnerCatch("gemini", pinned, model, SyntaxError, prev)
            ELSE Attempted("success", JsonParse(text), NoError, "model-used", prev)

Attempt(p, pinned, model, o, prev) ==
    IF p = "openai" THEN AttemptOpenAI(pinned, model, o, prev)
    ELSE AttemptGemini(pinned, model, o, prev)

(* The check after the fallback loop (aiRunner.ts 159-161 and 243-246):    *)
(* the error thrown when no model succeeded, or NoError when the Gemini    *)
(* branch falls through.                                                   *)
ExhaustedError(p, pinned, last) ==
    IF p = "openai"
    THEN IF pinned # NoModel
         THEN NewError(<<"pinned", "model", pinned, "failed">>)
         ELSE NewError(<<"all", "OpenAI", "models", "failed">>)
    ELSE IF Truthy(last)
         THEN IF pinned # NoModel
              THEN NewError(<<"pinned", "model", pinned, "failed:">>
                            \o (IF last.k = "object" THEN last.msg ELSE <<"undefined">>))
              ELSE NewError(MessageProp(last))
         ELSE NoError

(* ----------------------- the rest of one rule -------------------------- *)
Finished(diags, err) == [diags |-> diags, err |-> err]

(* aiRunner.ts 249-289: array coercion, schema validation, issue mapping.  *)
(* diags are the diagnostics pushed, err the error thrown (or NoError).    *)
Finish(rule, json) ==
    LET v == Validate(rule, CoerceArray(json))
    IN IF v.ok THEN MapIssues(rule, v.items) ELSE Finished(<<>>, v.err)

(* ===================== Part 2: runStaticRules ========================== *)
(* Strings of the static rules are sequences of lexemes: single characters *)
(* in token names and hex digits, whole words elsewhere.                   *)
MaxNameLen == 3
MaxTokens == 2

(* Lexemes that consist of lowercase letters.                              *)
LowerWords ==
    {"a", "b", "c", "f", "x", "color", "primary", "accent", "muted", "text", "spacing",
     "size", "md", "lg", "auto", "red", "rem", "px", "rgb", "rgba", "hsl", "hsla",
     "token", "const"}

IsLowerLetter(c) == c \in LowerWords
IsUpperLetter(c) == c \in {"A", "B", "F", "RGB", "HSL"}
IsDigit(c) == c \in {"0", "1", "2", "4", "5", "6", "8"}
IsWhitespace(c) == c \in {" ", "\t"}

(* String.prototype.toLowerCase, lexeme by lexeme.                         *)
Lower(c) ==
    CASE c = "A" -> "a"
      [] c = "B" -> "b"
      [] c = "F" -> "f"
      [] c = "RGB" -> "rgb"
      [] c = "HSL" -> "hsl"
      [] OTHER -> c

ToLowerCase(s) == [i \in 1..Len(s) |-> Lower(s[i])]

(* replace(/\s+/g, '-'): every maximal run of whitespace becomes one '-'.  *)
RECURSIVE ReplaceWhitespaceRuns(_)
ReplaceWhitespaceRuns(s) ==
    IF Len(s) = 0 THEN <<>>
    ELSE IF IsWhitespace(s[1])
         THEN IF Len(s) >= 2 /\ IsWhitespace(s[2])
              THEN ReplaceWhitespaceRuns(Tail(s))
              ELSE <<"-">> \o ReplaceWhitespaceRuns(Tail(s))
         ELSE <<s[1]>> \o ReplaceWhitespaceRuns(Tail(s))

(* replace(/_/g, '-') *)
ReplaceUnderscores(s) == [i \in 1..Len(s) |-> IF s[i] = "_" THEN "-" ELSE s[i]]

(* replace('_', '-'): only the first underscore is replaced.               *)
ReplaceFirstUnderscore(s) ==
    [i \in 1..Len(s) |->
        IF s[i] = "_" /\ (\A j \in 1..(i - 1) : s[j] # "_") THEN "-" ELSE s[i]]

(* Variant of NamingSuggestion whose last replace has no g flag.           *)
NamingSuggestionFirstUnderscore(name) ==
    ReplaceFirstUnderscore(ReplaceWhitespaceRuns(ToLowerCase(name)))

(* part_003 12: the suggestion of a naming-convention diagnostic.          *)
NamingSuggestion(name) == ReplaceUnderscores(ReplaceWhitespaceRuns(ToLowerCase(name)))

(* The patterns of a naming-convention configuration: the default of the   *)
(* cli, ^([a-z]+\.)+[a-z0-9\-]+$, the pattern of the README,               *)
(* ^([a-z]+)(\.[a-z0-9\-]+)*$, and a text that is not a regular            *)
(* expression (an unclosed bracket), on which new RegExp throws.           *)
Patterns == {"cli-default", "readme", "invalid"}

IsSegmentChar(c) == IsLowerLetter(c) \/ IsDigit(c) \/ c = "-"

NoAdjacentDots(s) == \A j \in 1..(Len(s) - 1) : ~(s[j] = "." /\ s[j + 1] = ".")

(* ^([a-z]+\.)+[a-z0-9\-]+$ *)
MatchesCliDefault(name) ==
    \E i \in 2..(Len(name) - 1) :
        /\ name[i] = "."
        /\ \A j \in (i + 1)..Len(name) : IsSegmentChar(name[j])
        /\ name[1] # "."
        /\ NoAdjacentDots(SubSeq(name, 1, i))
        /\ \A j \in 1..i : IsLowerLetter(name[j]) \/ name[j] = "."

(* ^([a-z]+)(\.[a-z0-9\-]+)*$ *)
MatchesReadme(name) ==
    /\ Len(name) >= 1
    /\ name[Len(name)] # "."
    /\ NoAdjacentDots(name)
    /\ \A j \in 1..Len(name) :
          /\ IsSegmentChar(name[j]) \/ name[j] = "."
          /\ (\A k \in 1..j : name[k] # ".") => IsLowerLetter(name[j])

(* pattern.test(name) *)
PatternTest(pattern, name) ==
    IF pattern = "cli-default" THEN MatchesCliDefault(name) ELSE MatchesReadme(name)

(* A diagnostic with no field set; the static rules and the AI mapping     *)
(* fill the fields they know.                                              *)
NoDiagnostic ==
    [ruleId |-> Undef, severity |-> Undef, message |-> Undef, tokenName |-> Undef,
     suggestion |-> Undef, file |-> Undef, line |-> Undef, problem |-> Undef,
     reason |-> Undef, suggestedToken |-> Undef, fixedCode |-> Undef, impact |-> Undef]

NamingDiagnostic(t, pattern, severity) ==
    [NoDiagnostic EXCEPT
        !.ruleId = "naming-convention",
        !.message = <<"Token name">> \o t.name \o <<"does not match pattern", pattern>>,
        !.severity = severity,
        !.tokenName = t.name,
        !.suggestion = NamingSuggestion(t.name)]

(* part_003 3-17 *)
ruleNamingConvention(tokens, pattern, severity) ==
    LET failing == SelectSeq(tokens, LAMBDA t : ~PatternTest(pattern, t.name))
    IN [i \in 1..Len(failing) |-> NamingDiagnostic(failing[i], pattern, severity)]

(* ------------------------- color values -------------------------------- *)
StringValue(s) == [k |-> "string", s |-> s, n |-> 0]
NumberValue(n) == [k |-> "number", s |-> <<>>, n |-> n]

At(s, i, c) == i >= 1 /\ i <= Len(s) /\ s[i] = c

(* The index of the first lexeme at or after i that is not whitespace.     *)
RECURSIVE SkipWhitespace(_, _)
SkipWhitespace(s, i) ==
    IF i <= Len(s) /\ IsWhitespace(s[i]) THEN SkipWhitespace(s, i + 1) ELSE i

(* The index after the run of digits that starts at i.                     *)
RECURSIVE SkipDigits(_, _)
SkipDigits(s, i) ==
    IF i >= 1 /\ i <= Len(s) /\ IsDigit(s[i]) THEN SkipDigits(s, i + 1) ELSE i

(* value.match(/\d+/g): the maximal runs of digits, from left to right.    *)
RECURSIVE DigitRuns(_, _)
DigitRuns(s, i) ==
    IF i > Len(s) THEN <<>>
    ELSE IF IsDigit(s[i])
         THEN <<SubSeq(s, i, SkipDigits(s, i) - 1)>> \o DigitRuns(s, SkipDigits(s, i))
         ELSE DigitRuns(s, i + 1)

(* staticRunner.ts 124-140, for a string argument.                         *)
normalizeColorValue(value) ==
    IF At(value, 1, "#") THEN ToLowerCase(value)
    ELSE IF Len(value) >= 1 /\ value[1] \in {"rgb", "rgba"} /\ Len(DigitRuns(value, 1)) >= 3
         THEN LET numbers == DigitRuns(value, 1)
              IN <<"rgb", "(">> \o numbers[1] \o <<",">> \o numbers[2] \o <<",">>
                    \o numbers[3] \o <<")">>
    ELSE ToLowerCase(value)

(* --------------------------- code files -------------------------------- *)
(* content.split('\n') *)
RECURSIVE SplitLines(_)
SplitLines(content) ==
    IF \A i \in 1..Len(content) : content[i] # "\n" THEN <<content>>
    ELSE LET i == CHOOSE k \in 1..Len(content) :
                      content[k] = "\n" /\ \A j \in 1..(k - 1) : content[j] # "\n"
         IN <<SubSeq(content, 1, i - 1)>> \o SplitLines(SubSeq(content, i + 1, Len(content)))

(* lines.join('\n') *)
RECURSIVE JoinLines(_)
JoinLines(lines) ==
    IF Len(lines) = 0 THEN <<>>
    ELSE IF Len(lines) = 1 THEN lines[1]
    ELSE lines[1] \o <<"\n">> \o JoinLines(Tail(lines))

RECURSIVE TrimEnd(_)
TrimEnd(s) ==
    IF Len(s) > 0 /\ IsWhitespace(s[Len(s)]) THEN TrimEnd(SubSeq(s, 1, Len(s) - 1)) ELSE s

Trim(s) == TrimEnd(SubSeq(s, SkipWhitespace(s, 1), Len(s)))

(* line.trim().startsWith('//') || line.trim().startsWith('*') *)
IsCommentLine(line) ==
    LET t == Trim(line)
    IN Len(t) >= 1 /\ t[1] \in {"//", "*", "*/"}

IsHexChar(c) == IsDigit(c) \/ c \in {"a", "b", "c", "f", "A", "B", "F"}

(* A lexeme that begins with a word character of the regular expressions.  *)
IsWordStart(c) ==
    \/ IsDigit(c) \/ IsLowerLetter(c) \/ IsUpperLetter(c) \/ c = "_"
    \/ c \in {"color:", "width:", "var("}

(* A lexeme that ends with a word character.                               *)
IsWordEnd(c) == IsWordStart(c) /\ c \notin {"color:", "width:", "var("}

(* \b after a word character at i - 1.                                     *)
WordBoundary(s, i) == i > Len(s) \/ ~IsWordStart(s[i])

HexRun(s, i, n) == \A j \in i..(i + n - 1) : j <= Len(s) /\ IsHexChar(s[j])

(* /#([0-9A-Fa-f]{3}|[0-9A-Fa-f]{6})\b/ at position i: the index after the *)
(* match, or 0.                                                            *)
HexMatchEnd(s, i) ==
    IF ~At(s, i, "#") THEN 0
    ELSE IF HexRun(s, i + 1, 3) /\ WordBoundary(s, i + 4) THEN i + 4
    ELSE IF HexRun(s, i + 1, 6) /\ WordBoundary(s, i + 7) THEN i + 7
    ELSE 0

(* \s*\d+ from i: the index after it, or 0 (0 is passed through).          *)
MatchNumber(s, i) ==
    IF i = 0 THEN 0
    ELSE LET a == SkipWhitespace(s, i)
             b == SkipDigits(s, a)
         IN IF b > a THEN b ELSE 0

(* \s*c from i *)
MatchLexeme(s, i, c) ==
    IF i = 0 THEN 0
    ELSE LET a == SkipWhitespace(s, i) IN IF At(s, a, c) THEN a + 1 ELSE 0

(* A lexeme directly at i, without leading whitespace.                     *)
MatchHere(s, i, c) == IF i # 0 /\ At(s, i, c) THEN i + 1 ELSE 0

RECURSIVE SkipAlpha(_, _)
SkipAlpha(s, i) ==
    IF i <= Len(s) /\ (IsDigit(s[i]) \/ s[i] = ".") THEN SkipAlpha(s, i + 1) ELSE i

(* (?:\s*,\s*[\d.]+)?\s*\) from i *)
MatchAlphaAndClose(s, i) ==
    IF i = 0 THEN 0
    ELSE LET c == MatchLexeme(s, i, ",")
             a == IF c = 0 THEN 0 ELSE SkipWhitespace(s, c)
             b == IF a = 0 THEN 0 ELSE SkipAlpha(s, a)
             withAlpha == IF b > a THEN MatchLexeme(s, b, ")") ELSE 0
         IN IF withAlpha # 0 THEN withAlpha ELSE MatchLexeme(s, i, ")")

(* /rgba?\(\s*\d+\s*,\s*\d+\s*,\s*\d+(?:\s*,\s*[\d.]+)?\s*\)/ at i *)
RgbMatchEnd(s, i) ==
    IF ~(i <= Len(s) /\ s[i] \in {"rgb", "rgba"}) THEN 0
    ELSE LET n1 == MatchNumber(s, MatchHere(s, i + 1, "("))
             n2 == MatchNumber(s, MatchLexeme(s, n1, ","))
             n3 == MatchNumber(s, MatchLexeme(s, n2, ","))
         IN MatchAlphaAndClose(s, n3)

(* /hsla?\(\s*\d+\s*,\s*\d+%\s*,\s*\d+%(?:\s*,\s*[\d.]+)?\s*\)/ at i *)
HslMatchEnd(s, i) ==
    IF ~(i <= Len(s) /\ s[i] \in {"hsl", "hsla"}) THEN 0
    ELSE LET n1 == MatchNumber(s, MatchHere(s, i + 1, "("))
             n2 == MatchHere(s, MatchNumber(s, MatchLexeme(s, n1, ",")), "%")
             n3 == MatchHere(s, MatchNumber(s, MatchLexeme(s, n2, ",")), "%")
         IN MatchAlphaAndClose(s, n3)

Found(value, line, column) == [value |-> value, line |-> line, column |-> column]

(* The exec loop of a global regular expression over one line: the         *)
(* matches from left to right, each search starting after the last match.  *)
ColorMatchEnd(kind, s, i) ==
    CASE kind = "hex" -> HexMatchEnd(s, i)
      [] kind = "rgb" -> RgbMatchEnd(s, i)
      [] OTHER -> HslMatchEnd(s, i)

RECURSIVE ExecAllColors(_, _, _, _)
ExecAllColors(kind, s, i, lineNo) ==
    IF i > Len(s) THEN <<>>
    ELSE LET e == ColorMatchEnd(kind, s, i)
         IN IF e # 0
            THEN <<Found(SubSeq(s, i, e - 1), lineNo, i)>> \o ExecAllColors(kind, s, e, lineNo)
            ELSE ExecAllColors(kind, s, i + 1, lineNo)

RECURSIVE FlattenSeq(_)
FlattenSeq(ss) == IF Len(ss) = 0 THEN <<>> ELSE ss[1] \o FlattenSeq(Tail(ss))

(* tokensJsonAdapter.ts 133-183 *)
extractRawColors(content) ==
    LET lines == SplitLines(content)
    IN FlattenSeq([l \in 1..Len(lines) |->
          IF IsCommentLine(lines[l]) THEN <<>>
          ELSE ExecAllColors("hex", lines[l], 1, l)
                 \o ExecAllColors("rgb", lines[l], 1, l)
                 \o ExecAllColors("hsl", lines[l], 1, l)])

(* staticRunner.ts 145-151 *)
findClosestColorToken(colorValue, tokens) ==
    IF Len(tokens) > 0 THEN tokens[1].name ELSE <<"color", ".", "primary">>

(* The index of the first occurrence of sub in s, or 0.                    *)
IndexOf(s, sub) ==
    LET hits == {i \in 1..(Len(s) - Len(sub) + 1) : SubSeq(s, i, i + Len(sub) - 1) = sub}
    IN IF hits = {} THEN 0 ELSE CHOOSE i \in hits : \A j \in hits : i <= j

(* line.replace(value, replacement): the first occurrence is replaced.     *)
ReplaceFirst(s, sub, rep) ==
    LET i == IndexOf(s, sub)
    IN IF i = 0 THEN s
       ELSE SubSeq(s, 1, i - 1) \o rep \o SubSeq(s, i + Len(sub), Len(s))

ContainsChar(s, ch) ==
    \E i \in 1..Len(s) : s[i] = ch \/ (ch = ":" /\ s[i] \in {"color:", "width:"})

(* replace(/\./g, '-') *)
ReplaceDots(s) == [i \in 1..Len(s) |-> IF s[i] = "." THEN "-" ELSE s[i]]

(* staticRunner.ts 194-213 *)
generateFixedCode(originalContent, match, suggestedToken) ==
    LET lines == SplitLines(originalContent)
        line == lines[match.line]
        isCSS == ContainsChar(line, ":") /\ ContainsChar(line, ";")
        replacement == IF isCSS THEN <<"var(", "--">> \o ReplaceDots(suggestedToken) \o <<")">>
                       ELSE <<"token", "('">> \o suggestedToken \o <<"')">>
    IN IF match.line > Len(lines) \/ Len(line) = 0 THEN originalContent
       ELSE JoinLines([lines EXCEPT ![match.line] = ReplaceFirst(line, match.value, replacement)])

StaticResult(diags, err) == [diags |-> diags, err |-> err]

RawColorDiagnostic(codeFile, color, colorTokens, severity) ==
    [NoDiagnostic EXCEPT
        !.ruleId = "raw-color",
        !.message = <<"Raw color">> \o color.value \o <<"should use a design token">>,
        !.severity = severity,
        !.file = codeFile.path,
        !.line = color.line,
        !.problem = <<"raw color">> \o color.value,
        !.reason = "Design tokens should be used instead of raw color values for consistency",
        !.suggestedToken = findClosestColorToken(color.value, colorTokens),
        !.fixedCode = generateFixedCode(codeFile.content, color,
                                        findClosestColorToken(color.value, colorTokens)),
        !.impact = "Medium"]

(* staticRunner.ts 37-78.  normalizeColorValue calls value.startsWith, so  *)
(* a color token whose raw value is not a string makes the function throw  *)
(* while it builds the map of the color tokens.                            *)
detectRawColors(codeFiles, tokens, severity) ==
    LET colorTokens == SelectSeq(tokens, LAMBDA t : t.type = "color")
        colorTokenMap == {normalizeColorValue(colorTokens[i].rawValue.s) : i \in 1..Len(colorTokens)}
        unmatched(f) == SelectSeq(extractRawColors(f.content),
                                  LAMBDA c : normalizeColorValue(c.value) \notin colorTokenMap)
        perFile(f) == [i \in 1..Len(unmatched(f)) |->
                          RawColorDiagnostic(f, unmatched(f)[i], colorTokens, severity)]
    IN IF \E i \in 1..Len(colorTokens) : colorTokens[i].rawValue.k # "string"
       THEN StaticResult(<<>>, TypeError)
       ELSE StaticResult(FlattenSeq([i \in 1..Len(codeFiles) |-> perFile(codeFiles[i])]), NoError)

(* ------------------------- pixel values -------------------------------- *)
(* Numbers are counted in hundredths, so that 1.5 is 150; NaN is the       *)
(* result of parseFloat on a text that does not start with a number.       *)
NaN == -1

DigitValue(c) ==
    CASE c = "0" -> 0 [] c = "1" -> 1 [] c = "2" -> 2 [] c = "4" -> 4
      [] c = "5" -> 5 [] c = "6" -> 6 [] OTHER -> 8

RECURSIVE DigitsToNat(_)
DigitsToNat(ds) ==
    IF Len(ds) = 0 THEN 0
    ELSE 10 * DigitsToNat(SubSeq(ds, 1, Len(ds) - 1)) + DigitValue(ds[Len(ds)])

(* The first two decimals of a fraction, in hundredths.                    *)
FractionToNat(ds) ==
    (IF Len(ds) >= 1 THEN 10 * DigitValue(ds[1]) ELSE 0)
        + (IF Len(ds) >= 2 THEN DigitValue(ds[2]) ELSE 0)

(* parseFloat of a text without sign and exponent.                         *)
ParseFloat(s) ==
    LET a == SkipDigits(s, 1)
        b == IF At(s, a, ".") THEN SkipDigits(s, a + 1) ELSE a
    IN IF a = 1 /\ b <= a + 1 THEN NaN
       ELSE 100 * DigitsToNat(SubSeq(s, 1, a - 1)) + FractionToNat(SubSeq(s, a + 1, b - 1))

(* The width of a lexeme in characters.                                    *)
Width(c) ==
    CASE c \in {"color:", "width:"} -> 6
      [] c \in {"token", "const"} -> 5
      [] c \in {"rgba", "hsla", "var("} -> 4
      [] c \in {"rgb", "RGB", "hsl", "HSL", "red", "rem"} -> 3
      [] c \in {"px", "--", "//", "/*", "*/", "('", "')"} -> 2
      [] OTHER -> 1

RECURSIVE WidthOf(_)
WidthOf(s) == IF Len(s) = 0 THEN 0 ELSE Width(s[1]) + WidthOf(Tail(s))

(* /\b(\d+(?:\.\d+)?)px\b/ at i: the index after the match, or 0.          *)
PxMatchEnd(s, i) ==
    IF ~(i <= Len(s) /\ IsDigit(s[i]) /\ (i = 1 \/ ~IsWordEnd(s[i - 1]))) THEN 0
    ELSE LET a == SkipDigits(s, i)
             b == IF At(s, a, ".") /\ SkipDigits(s, a + 1) > a + 1
                  THEN SkipDigits(s, a + 1) ELSE a
             withFraction == IF At(s, b, "px") /\ WordBoundary(s, b + 1) THEN b + 1 ELSE 0
         IN IF withFraction # 0 THEN withFraction
            ELSE IF At(s, a, "px") /\ WordBoundary(s, a + 1) THEN a + 1 ELSE 0

(* line.substring(Math.max(0, match.index - 20), match.index) includes     *)
(* '--' or 'token'.                                                        *)
BeforeMatchIncludes(s, i, c) ==
    \E j \in 1..(i - 1) : s[j] = c /\ WidthOf(SubSeq(s, j, i - 1)) <= 20

RECURSIVE ExecAllPixels(_, _, _)
ExecAllPixels(s, i, lineNo) ==
    IF i > Len(s) THEN <<>>
    ELSE LET e == PxMatchEnd(s, i)
         IN IF e = 0 THEN ExecAllPixels(s, i + 1, lineNo)
            ELSE IF BeforeMatchIncludes(s, i, "--") \/ BeforeMatchIncludes(s, i, "token")
                 THEN ExecAllPixels(s, e, lineNo)
            ELSE <<Found(SubSeq(s, i, e - 1), lineNo, i)>> \o ExecAllPixels(s, e, lineNo)

(* tokensJsonAdapter.ts 189-225 *)
extractRawPixels(content) ==
    LET lines == SplitLines(content)
    IN FlattenSeq([l \in 1..Len(lines) |->
          IF IsCommentLine(lines[l]) THEN <<>>
          ELSE IF Includes(lines[l], "var(") \/ Includes(lines[l], "--") THEN <<>>
          ELSE ExecAllPixels(lines[l], 1, l)])

(* String(rawValue).replace('px', '') *)
RemovePx(s) == ReplaceFirst(s, <<"px">>, <<>>)

(* staticRunner.ts 158-160 and 177-179 *)
TokenValue(token) ==
    IF token.rawValue.k = "number" THEN token.rawValue.n
    ELSE ParseFloat(RemovePx(token.rawValue.s))

AbsDiff(a, b) == IF a >= b THEN a - b ELSE b - a

(* staticRunner.ts 156-167: the index of the matching token, or 0; 10      *)
(* hundredths are 0.1.                                                     *)
findMatchingSpacingToken(pixelValue, tokens) ==
    LET hits == {i \in 1..Len(tokens) :
                    TokenValue(tokens[i]) # NaN /\ AbsDiff(TokenValue(tokens[i]), pixelValue) < 10}
    IN IF hits = {} THEN 0 ELSE CHOOSE i \in hits : \A j \in hits : i <= j

(* Variant of findClosestSpacingToken with the heuristic of                *)
(* findClosestColorToken: the first token, whatever its value.             *)
findClosestSpacingTokenFirst(pixelValue, tokens) ==
    IF Len(tokens) > 0 THEN tokens[1].name ELSE <<"spacing", ".", "md">>

(* staticRunner.ts 172-189: the first token with the smallest difference.  *)
findClosestSpacingToken(pixelValue, tokens) ==
    LET valued == {i \in 1..Len(tokens) : TokenValue(tokens[i]) # NaN}
        diff(i) == AbsDiff(TokenValue(tokens[i]), pixelValue)
        best == {i \in valued : \A j \in valued : diff(i) <= diff(j)}
    IN IF best = {} THEN <<"spacing", ".", "md">>
       ELSE tokens[CHOOSE i \in best : \A j \in best : i <= j].name

RawPixelDiagnostic(codeFile, pixel, spacingTokens, severity) ==
    [NoDiagnostic EXCEPT
        !.ruleId = "raw-pixel",
        !.message = <<"Raw pixel value">> \o pixel.value \o <<"should use a design token">>,
        !.severity = severity,
        !.file = codeFile.path,
        !.line = pixel.line,
        !.problem = <<"raw pixel">> \o pixel.value,
        !.reason = "Design tokens should be used instead of raw pixel values for consistency",
        !.suggestedToken = findClosestSpacingToken(ParseFloat(pixel.value), spacingTokens),
        !.fixedCode = generateFixedCode(codeFile.content, pixel,
                          findClosestSpacingToken(ParseFloat(pixel.value), spacingTokens)),
        !.impact = "Medium"]

(* staticRunner.ts 83-119 *)
detectRawPixels(codeFiles, tokens, severity) ==
    LET spacingTokens == SelectSeq(tokens, LAMBDA t :
                             \/ t.type \in {"spacing", "size"}
                             \/ Includes(t.name, "spacing")
                             \/ Includes(t.name, "size"))
        unmatched(f) == SelectSeq(extractRawPixels(f.content),
                            LAMBDA p : findMatchingSpacingToken(ParseFloat(p.value), spacingTokens) = 0)
        perFile(f) == [i \in 1..Len(unmatched(f)) |->
                          RawPixelDiagnostic(f, unmatched(f)[i], spacingTokens, severity)]
    IN FlattenSeq([i \in 1..Len(codeFiles) |-> perFile(codeFiles[i])])

(* --------------------------- runStaticRules ---------------------------- *)
Severities == {"error", "warn", "info"}

StaticRuleIds == {"naming-convention", "raw-color", "raw-pixel"}

(* The entry of one rule id in a StaticRuleConfig (staticRunner.ts 5-9).   *)
Absent == [present |-> FALSE, severity |-> Undef, pattern |-> Undef, enabled |-> FALSE]
NamingConfig(severity, pattern) ==
    [present |-> TRUE, severity |-> severity, pattern |-> pattern, enabled |-> FALSE]
RawConfig(severity, enabled) ==
    [present |-> TRUE, severity |-> severity, pattern |-> Undef, enabled |-> enabled]

(* staticRunner.ts 14-19: new RegExp(pattern) throws a SyntaxError on a    *)
(* text that is not a regular expression.                                  *)
NamingStep(tokens, cfg) ==
    IF cfg.pattern = "invalid" THEN StaticResult(<<>>, SyntaxError)
    ELSE StaticResult(ruleNamingConvention(tokens, cfg.pattern, cfg.severity), NoError)

Config(naming, color, pixel) ==
    [r \in StaticRuleIds |->
        IF r = "naming-convention" THEN naming ELSE IF r = "raw-color" THEN color ELSE pixel]

(* The codeFiles argument: not passed, or an array of files.               *)
NoCodeFiles == [given |-> FALSE, files |-> <<>>]
CodeFiles(files) == [given |-> TRUE, files |-> files]
CodeFile(path, content) == [path |-> path, content |-> content]

Token(type, name, rawValue) == [type |-> type, name |-> name, rawValue |-> rawValue]

(* ---------------------- inputs of the static rules --------------------- *)
MaxLines == 2

NameChars == {"a", "B", "_", " ", "."}
Names == SeqsUpTo(NameChars, MaxNameLen)
FixedNames == {<<"a", ".", "a">>, <<"B", "_", "a">>}

OtherToken(name) == Token("other", name, StringValue(<<"x">>))

NamingTokenLists ==
    {<<>>} \cup {<<OtherToken(n)>> \o [i \in 1..Len(r) |-> OtherToken(r[i])] :
                    n \in Names, r \in SeqsUpTo(FixedNames, MaxTokens - 1)}

NamingConfigs ==
    {Config(Absent, Absent, Absent)}
        \cup {Config(NamingConfig(s, p), Absent, Absent) : s \in Severities, p \in Patterns}

NamingInputs == [tokens : NamingTokenLists, config : NamingConfigs, codeFiles : {NoCodeFiles}]

(* Hex colors that differ in the case of their letters.                    *)
HexAlphabet == {"f", "F", "0"}
HexValues ==
    {<<"#", a, b, c>> : a \in HexAlphabet, b \in HexAlphabet, c \in HexAlphabet}
        \cup {<<"#", a, b, c, a, b, c>> : a \in HexAlphabet, b \in HexAlphabet, c \in HexAlphabet}

ColorNames == <<<<"color", ".", "primary">>, <<"color", ".", "accent">>,
                <<"color", ".", "muted">>, <<"color", ".", "text">>>>

ColorTokens(values) == [i \in 1..Len(values) |-> Token("color", ColorNames[i], values[i])]

Declaration(lit) == <<"color:", " ">> \o lit \o <<";">>

HexInputs ==
    {[tokens |-> ColorTokens(<<StringValue(tv)>>),
      config |-> Config(Absent, RawConfig("warn", TRUE), Absent),
      codeFiles |-> CodeFiles(<<CodeFile("a.css", Declaration(lit))>>)] :
        tv \in HexValues, lit \in HexValues}

Rgb(fn, sp, alpha) ==
    <<fn, "(", "2", "5", "5", ",">> \o sp \o <<"0", ",">> \o sp \o <<"0">> \o alpha \o <<")">>

Hsl(fn, alpha) ==
    <<fn, "(", "0", ",", " ", "1", "0", "0", "%", ",", " ", "5", "0", "%">> \o alpha \o <<")">>

(* The color literals of the code lines.                                   *)
CodeLiterals ==
    {<<"#", "f", "F", "0">>,
     <<"#", "4", "2", "8", "5", "F", "4">>,
     Rgb("rgb", <<" ">>, <<>>),
     Rgb("rgb", <<>>, <<>>),
     Rgb("rgba", <<" ">>, <<",", " ", "0", ".", "5">>),
     Hsl("hsl", <<>>),
     Hsl("hsla", <<",", " ", "0", ".", "5">>)}

(* What a line starts with: nothing, a line comment, an indented line      *)
(* comment, the continuation of a block comment, the opening of a block    *)
(* comment, a tab.                                                         *)
Prefixes == {<<>>, <<"//", " ">>, <<" ", "//">>, <<" ", "*", " ">>, <<"/*", " ">>, <<"\t">>}

CommentPrefixes == {<<"//", " ">>, <<" ", "//">>, <<" ", "*", " ">>}

LineSpec(prefix, lits) == [prefix |-> prefix, lits |-> lits]

LineSpecs ==
    {LineSpec(p, <<>>) : p \in Prefixes}
        \cup {LineSpec(p, <<l>>) : p \in Prefixes, l \in CodeLiterals}
        \cup {LineSpec(p, <<l, <<"#", "f", "F", "0">>>>) : p \in Prefixes, l \in CodeLiterals}

RECURSIVE Declarations(_)
Declarations(lits) ==
    IF Len(lits) = 0 THEN <<>>
    ELSE IF Len(lits) = 1 THEN Declaration(lits[1])
    ELSE Declaration(lits[1]) \o <<" ">> \o Declarations(Tail(lits))

Render(spec) == spec.prefix \o Declarations(spec.lits)

FixedLines ==
    {Render(LineSpec(<<>>, <<<<"#", "f", "f", "f">>>>)),
     <<"const", " ", "c", " ", "=", " ", "'", "#", "0", "0", "0", "'">>}

Contents ==
    {JoinLines(<<Render(s)>> \o r) : s \in LineSpecs, r \in SeqsUpTo(FixedLines, MaxLines - 1)}

FileLists ==
    {<<CodeFile("a.css", c)>> : c \in Contents}
        \cup {<<CodeFile("b.tsx", <<"const", " ", "c", " ", "=", " ", "'", "#", "0", "0", "0", "'">>),
               CodeFile("a.css", Render(s))>> : s \in LineSpecs}

(* The raw values of the color tokens: strings in several notations and a  *)
(* value that is not a string.                                             *)
ColorRawValues ==
    {StringValue(<<"#", "f", "f", "0">>),
     StringValue(<<"#", "4", "2", "8", "5", "f", "4">>),
     StringValue(Rgb("rgb", <<>>, <<>>)),
     StringValue(Rgb("RGB", <<" ">>, <<>>)),
     StringValue(Hsl("HSL", <<>>)),
     StringValue(<<"red">>),
     NumberValue(255)}

ColorTokenLists ==
    {<<>>}
        \cup {ColorTokens(<<v>>) : v \in ColorRawValues}
        \cup {ColorTokens(<<StringValue(<<"red">>), v>>) : v \in ColorRawValues}

ColorConfigs ==
    {Config(Absent, RawConfig("warn", TRUE), Absent),
     Config(Absent, RawConfig("error", FALSE), Absent),
     Config(Absent, Absent, RawConfig("warn", TRUE)),
     Config(NamingConfig("error", "invalid"), RawConfig("warn", TRUE), RawConfig("warn", TRUE)),
     Config(NamingConfig("error", "cli-default"), RawConfig("info", TRUE), RawConfig("warn", FALSE))}

ColorInputs ==
    [tokens : ColorTokenLists, config : ColorConfigs,
     codeFiles : {CodeFiles(f) : f \in FileLists} \cup {NoCodeFiles, CodeFiles(<<>>)}]

SpacingTokenLists ==
    {<<>>,
     <<Token("spacing", <<"spacing", ".", "md">>, StringValue(<<"1", "6", "px">>))>>,
     <<Token("other", <<"size", ".", "lg">>, NumberValue(2400)),
       Token("spacing", <<"spacing", ".", "md">>, StringValue(<<"1", "6", "px">>))>>,
     <<Token("size", <<"auto">>, StringValue(<<"a">>)),
       Token("other", <<"x", ".", "spacing">>, StringValue(<<"1", ".", "5", "rem">>))>>}

PixelLines ==
    {<<"width:", " ", "1", "6", "px", ";">>,
     <<"width:", " ", "1", ".", "5", "px", ";">>,
     <<"width:", " ", "2", "4", ".", "0", "5", "px", " ", "8", "px", ";">>,
     <<"//", " ", "1", "6", "px">>,
     <<"width:", " ", "var(", "--", "a", ")", " ", "1", "6", "px">>,
     <<"token", "('", "a", "')", " ", "8", "px">>,
     <<"a", "1", "6", "px", " ", "1", "6", "px", "a">>,
     <<"width:", " ", "2", "8", "px", " ", "8", "px", ";">>}

PixelInputs ==
    [tokens : SpacingTokenLists,
     config : {Config(Absent, Absent, RawConfig("warn", TRUE)),
               Config(Absent, RawConfig("warn", TRUE), RawConfig("error", TRUE))},
     codeFiles : {CodeFiles(<<CodeFile("a.css", JoinLines(<<l, m>>))>>) :
                     l \in PixelLines, m \in PixelLines}]

StaticInputs == NamingInputs \cup HexInputs \cup ColorInputs \cup PixelInputs

(* ------------------------ loadTokensFromJson --------------------------- *)
(* A JSON value, as JSON.parse returns it.  A string carries its text, an  *)
(* object its members in key order, an array its elements under the keys   *)
(* 0, 1, ...; a key is the sequence of its characters, so that joining     *)
(* keys with dots is computed.  JUndefined is what reading a missing       *)
(* member gives.                                                           *)
MaxDepth == 3

JValue(k, s, members) == [k |-> k, s |-> s, members |-> members]
Member(key, val) == [key |-> key, val |-> val]

JString(s) == JValue("string", s, <<>>)
JNumber == JValue("number", <<>>, <<>>)
JTrue == JValue("boolean", <<>>, <<>>)
JNull == JValue("null", <<>>, <<>>)
JUndefined == JValue("undefined", <<>>, <<>>)
JObject(members) == JValue("object", <<>>, members)
JArray(items) ==
    JValue("array", <<>>, [i \in 1..Len(items) |-> Member(<<IF i = 1 THEN "0" ELSE "1">>, items[i])])

(* 'key' in val *)
HasKey(val, key) == \E i \in 1..Len(val.members) : val.members[i].key = key

(* val[key] *)
Get(val, key) ==
    IF HasKey(val, key)
    THEN val.members[CHOOSE i \in 1..Len(val.members) : val.members[i].key = key].val
    ELSE JUndefined

(* a ?? b *)
Coalesce(a, b) == IF a.k \in {"null", "undefined"} THEN b ELSE a

(* typeof val === 'object' *)
TypeofObject(val) == val.k \in {"object", "array", "null"}

(* tokensJsonAdapter.ts 18 *)
IsTokenNode(val) ==
    /\ val.k \in {"object", "array"}
    /\ (HasKey(val, <<"value">>) \/ HasKey(val, <<"$value">>))

(* tokensJsonAdapter.ts 19 *)
RawValueOf(val) == Coalesce(Get(val, <<"value">>), Get(val, <<"$value">>))

(* typeof rawValue === 'string' && rawValue.startsWith('#') ? 'color' : 'other' *)
InferredType(rawValue) ==
    IF rawValue.k = "string" /\ At(rawValue.s, 1, "#")
    THEN JString(<<"color">>) ELSE JString(<<"other">>)

(* a || b *)
OrElse(a, b) ==
    IF a.k \in {"null", "undefined"} \/ a = JString(<<>>) THEN b ELSE a

(* Variant of TypeOf with || in place of ??.                               *)
TypeOfFalsy(val) ==
    OrElse(Get(val, <<"type">>), OrElse(Get(val, <<"$type">>), InferredType(RawValueOf(val))))

(* tokensJsonAdapter.ts 20 *)
TypeOf(val) ==
    Coalesce(Get(val, <<"type">>), Coalesce(Get(val, <<"$type">>), InferredType(RawValueOf(val))))

(* tokensJsonAdapter.ts 14 *)
NameOf(prefix, k) == IF prefix # <<>> THEN prefix \o <<".">> \o k ELSE k

LoadedToken(val, name) ==
    [type |-> TypeOf(val), name |-> name, rawValue |-> RawValueOf(val), meta |-> val]

WalkResult(toks, err) == [tokens |-> toks, err |-> err]

(* tokensJsonAdapter.ts 11-31.  Object.keys throws a TypeError on null and *)
(* returns no key for a number or a boolean; the keys of a string are the  *)
(* indices of its characters, whose values are strings and push nothing.   *)
RECURSIVE walk(_, _), WalkFrom(_, _, _)
walk(obj, prefix) ==
    IF obj.k \in {"null", "undefined"} THEN WalkResult(<<>>, TypeError)
    ELSE WalkFrom(obj.members, 1, prefix)

WalkFrom(members, i, prefix) ==
    IF i > Len(members) THEN WalkResult(<<>>, NoError)
    ELSE LET val == members[i].val
             name == NameOf(prefix, members[i].key)
             here == IF IsTokenNode(val) THEN WalkResult(<<LoadedToken(val, name)>>, NoError)
                     ELSE IF TypeofObject(val) THEN walk(val, name)
                     ELSE WalkResult(<<>>, NoError)
         IN IF here.err # NoError THEN here
            ELSE LET rest == WalkFrom(members, i + 1, prefix)
                 IN IF rest.err # NoError THEN rest
                    ELSE WalkResult(here.tokens \o rest.tokens, NoError)

(* tokensJsonAdapter.ts 4-35, from the parsed document on.                 *)
loadTokensFromJson(doc) == walk(doc, <<>>)

(* ---- the documents of the runs ---- *)
JsonKeys == {<<"a">>, <<"b">>, <<"a", ".", "b">>, <<>>}

JsonLeaves ==
    {JString(<<"#", "f", "f", "f">>), JString(<<"8", "px">>), JNumber, JTrue, JNull,
     JArray(<<>>), JObject(<<>>), JArray(<<JString(<<"8", "px">>), JNull>>)}

(* The type members of a token node: none, type, $type, both, a null type, *)
(* an empty type, a type that is no string.                                *)
TypeMembers ==
    {<<>>,
     <<Member(<<"type">>, JString(<<"color">>))>>,
     <<Member(<<"$type">>, JString(<<"spacing">>))>>,
     <<Member(<<"type">>, JString(<<"color">>)), Member(<<"$type">>, JString(<<"spacing">>))>>,
     <<Member(<<"type">>, JNull), Member(<<"$type">>, JString(<<"spacing">>))>>,
     <<Member(<<"type">>, JNull)>>,
     <<Member(<<"type">>, JString(<<>>))>>,
     <<Member(<<"type">>, JNumber)>>}

SimpleToken == JObject(<<Member(<<"value">>, JString(<<"#", "f", "f", "f">>))>>)

TokenNodes ==
    {JObject(<<Member(vk, v)>> \o tm) :
        vk \in {<<"value">>, <<"$value">>},
        v \in {JString(<<"#", "f", "f", "f">>), JString(<<"8", "px">>), JNumber, JNull},
        tm \in TypeMembers}
    \cup {JObject(<<Member(<<"value">>, JNull), Member(<<"$value">>, JString(<<"#", "f", "f", "f">>))>>),
          JObject(<<Member(<<"value">>, JString(<<"8", "px">>)), Member(<<"a">>, SimpleToken)>>),
          JObject(<<Member(<<"$value">>, SimpleToken)>>),
          JArray(<<SimpleToken, JString(<<"8", "px">>)>>)}

RECURSIVE Nest(_, _)
Nest(path, node) ==
    IF Len(path) = 0 THEN node ELSE JObject(<<Member(path[1], Nest(Tail(path), node))>>)

(* One node under a path of keys.                                          *)
NestedDocs ==
    {Nest(p, n) : p \in SeqsUpTo(JsonKeys, MaxDepth) \ {<<>>}, n \in TokenNodes \cup JsonLeaves}

GroupNodes ==
    {SimpleToken, JNumber, JNull, JArray(<<SimpleToken, JString(<<"8", "px">>)>>)}
        \cup {JObject(<<Member(k, SimpleToken)>>) : k \in JsonKeys}

(* Two members side by side.                                               *)
GroupDocs ==
    {JObject(<<Member(p[1], n1), Member(p[2], n2)>>) :
        p \in {q \in JsonKeys \X JsonKeys : q[1] # q[2]},
        n1 \in GroupNodes, n2 \in GroupNodes}

(* A document that is no group: a leaf or a token node at the root.        *)
RootDocs == JsonLeaves \cup {SimpleToken}

TokenDocs == NestedDocs \cup GroupDocs \cup RootDocs

(* ------------------------- prompt templating --------------------------- *)
(* A prompt is a sequence of lexemes; the placeholder is one lexeme, and   *)
(* "$", "&" and "'" are lexemes of one character each; the lexeme         *)
(* "backtick" stands for the grave accent.                                 *)
MaxPromptLen == 3

Placeholder == "{{TOKENS}}"

(* JSON.stringify(tokens.map(t => ({name, type, value: t.rawValue})),      *)
(* null, 2): the text of one token, then of the array.                     *)
TokenContext(t) ==
    <<"{", "\"name\":", "\"">> \o t.name \o <<"\"", ",", "\"type\":", "\"", t.type, "\"", ",",
      "\"value\":", "\"">> \o t.rawValue \o <<"\"", "}">>

RECURSIVE TokenContexts(_)
TokenContexts(toks) ==
    IF Len(toks) = 0 THEN <<>>
    ELSE IF Len(toks) = 1 THEN TokenContext(toks[1])
    ELSE TokenContext(toks[1]) \o <<",">> \o TokenContexts(Tail(toks))

TokensContext(toks) ==
    IF Len(toks) = 0 THEN <<"[]">> ELSE <<"[">> \o TokenContexts(toks) \o <<"]">>

(* The position of the first occurrence of a lexeme, 0 if there is none.   *)
FirstIndex(s, lex) ==
    IF Includes(s, lex) THEN CHOOSE i \in 1..Len(s) : s[i] = lex /\ \A j \in 1..(i - 1) : s[j] # lex
    ELSE 0

(* GetSubstitution of String.prototype.replace for a string pattern: in    *)
(* the replacement text "$$" stands for "$", "$&" for the matched text,    *)
(* "$" and a grave accent for the text before the match and "$'" for the  *)
(* text after it.                                                          *)
RECURSIVE GetSubstitution(_, _, _, _)
GetSubstitution(matched, before, after, replacement) ==
    IF Len(replacement) = 0 THEN <<>>
    ELSE IF replacement[1] = "$" /\ Len(replacement) >= 2
                /\ replacement[2] \in {"$", "&", "backtick", "'"}
         THEN (CASE replacement[2] = "$" -> <<"$">>
                 [] replacement[2] = "&" -> matched
                 [] replacement[2] = "backtick" -> before
                 [] replacement[2] = "'" -> after)
              \o GetSubstitution(matched, before, after, SubSeq(replacement, 3, Len(replacement)))
         ELSE <<replacement[1]>> \o GetSubstitution(matched, before, after, Tail(replacement))

(* promptText.replace('{{TOKENS}}', tokensContext): the first occurrence   *)
(* of the pattern is replaced by the substitution.                         *)
Replace(s, pattern, replacement) ==
    LET i == FirstIndex(s, pattern)
        before == SubSeq(s, 1, i - 1)
        after == SubSeq(s, i + 1, Len(s))
    IN IF i = 0 THEN s
       ELSE before \o GetSubstitution(<<pattern>>, before, after, replacement) \o after

(* aiRunner.ts 348-361, part_012 168-179 *)
TemplatedPrompt(promptText, toks) ==
    IF Includes(promptText, Placeholder)
    THEN Replace(promptText, Placeholder, TokensContext(toks))
    ELSE promptText \o <<"\n\n", "Tokens:", "\n">> \o TokensContext(toks)

(* part_012 182-184: the code files appended to the prompt of a rule.      *)
CodeFileContext(f) == <<"File:", f.path, "\n", f.content, "...">>

RECURSIVE CodeFilesContext(_)
CodeFilesContext(files) ==
    IF Len(files) = 0 THEN <<>>
    ELSE IF Len(files) = 1 THEN CodeFileContext(files[1])
    ELSE CodeFileContext(files[1]) \o <<"\n\n">> \o CodeFilesContext(Tail(files))

(* part_012 166-187: the prompt builder of a custom rule.                  *)
CustomRulePrompt(promptText, toks, files) ==
    TemplatedPrompt(promptText, toks)
        \o (IF Len(files) > 0 THEN <<"\n\n", "Code Files:", "\n">> \o CodeFilesContext(files)
            ELSE <<>>)

(* Prompt texts, token values and code files of the prompt runs.           *)
PromptLexemes == {"Review", Placeholder}
PromptTexts == SeqsUpTo(PromptLexemes, MaxPromptLen)
PromptValueChars == {"#fff", "$", "&", "'"}
PromptValues == {<<c>> : c \in PromptValueChars} \cup {<<"$", c>> : c \in {"$", "&", "'", "backtick", "1"}}
PromptTokenLists == {<<>>} \cup {<<Token("color", <<"a">>, v)>> : v \in PromptValues}
PromptFileLists == {<<>>, <<CodeFile("a.css", "x")>>}

(* -------------------------- generateJSONReport -------------------------- *)
MaxDiagnostics == 3

NoPath == ""

(* jsonReporter.ts 33-46: the fields an issue takes from its diagnostic.   *)
ReportIssue(d) ==
    [file |-> d.file, line |-> d.line, problem |-> d.problem, reason |-> d.reason,
     suggestedToken |-> d.suggestedToken, fixedCode |-> d.fixedCode, impact |-> d.impact,
     ruleId |-> d.ruleId, message |-> d.message, severity |-> d.severity,
     tokenName |-> d.tokenName, suggestion |-> d.suggestion]

(* jsonReporter.ts 33: diagnostics.map *)
ReportIssues(ds) == [i \in 1..Len(ds) |-> ReportIssue(ds[i])]

(* diagnostics.filter(d => d.severity === s).length *)
CountSeverity(ds, s) == Len(SelectSeq(ds, LAMBDA d : d.severity = s))

(* A summary that counts the warnings among the errors.                    *)
ReportSummaryMerged(ds) ==
    [total |-> Len(ds),
     errors |-> CountSeverity(ds, "error") + CountSeverity(ds, "warn"),
     warnings |-> 0,
     info |-> CountSeverity(ds, "info")]

(* jsonReporter.ts 47-52 *)
ReportSummary(ds) ==
    [total |-> Len(ds),
     errors |-> CountSeverity(ds, "error"),
     warnings |-> CountSeverity(ds, "warn"),
     info |-> CountSeverity(ds, "info")]

(* JSON.stringify leaves out the members whose value is undefined.         *)
OmitUndefined(o) == [f \in {g \in DOMAIN o : o[g] # Undef} |-> o[f]]

(* jsonReporter.ts 32-55: the report, as the text written and returned     *)
(* holds it.                                                               *)
JSONReport(ds) ==
    [issues |-> [i \in 1..Len(ds) |-> OmitUndefined(ReportIssues(ds)[i])],
     summary |-> ReportSummary(ds)]

NoReport == [issues |-> <<>>, summary |-> [total |-> 0, errors |-> 0, warnings |-> 0, info |-> 0]]

(* The diagnostics of a lint run: of the naming rule and of the raw-color  *)
(* rule, with the severities a configuration can give them.                *)
ReportSeverities == Severities \cup {"critical", Undef}

ReportDiagnostic(ruleId, severity) ==
    IF ruleId = "naming-convention"
    THEN [NoDiagnostic EXCEPT !.ruleId = ruleId, !.severity = severity, !.message = "naming",
                              !.tokenName = "B_a", !.suggestion = "b-a"]
    ELSE [NoDiagnostic EXCEPT !.ruleId = ruleId, !.severity = severity, !.message = "raw color",
                              !.file = "a.css", !.line = "1", !.suggestedToken = "color.primary",
                              !.fixedCode = "var(--color-primary)"]

ReportDiagnostics ==
    {ReportDiagnostic(r, s) : r \in {"naming-convention", "raw-color"}, s \in ReportSeverities}

(* ------------------------- syncFigmaTokens ----------------------------- *)
(* Texts are sequences of lexemes; a number is the sequence of its digits. *)
MaxStyles == 2

Http200 == <<"2", "0", "0">>
Http401 == <<"4", "0", "1">>
Http403 == <<"4", "0", "3">>
Http404 == <<"4", "0", "4">>
Http500 == <<"5", "0", "0">>

(* What a fetch of the Figma API gives.  fetch is "rejects" (no response)  *)
(* or "resolves"; status and statusText are those of the response; body is *)
(* "malformed" (response.json() rejects, detail is the position of the     *)
(* syntax error), "error" (a document with error: true, detail is its      *)
(* status), "nometa" (a document without meta or nodes) or "data" (names   *)
(* are the names of the variables or styles, or the ids of the nodes).     *)
FigmaResponse(fetch, status, statusText, body, detail, names) ==
    [fetch |-> fetch, status |-> status, statusText |-> statusText, body |-> body,
     detail |-> detail, names |-> names]

NoResponse == FigmaResponse("none", <<>>, "", "none", <<>>, {})
FetchRejects == FigmaResponse("rejects", <<>>, "", "none", <<>>, {})
HttpFailure(status, statusText) == FigmaResponse("resolves", status, statusText, "none", <<>>, {})
MalformedBody(position) == FigmaResponse("resolves", Http200, "OK", "malformed", position, {})
ErrorBody(status) == FigmaResponse("resolves", Http200, "OK", "error", status, {})
NoMetaBody == FigmaResponse("resolves", Http200, "OK", "nometa", <<>>, {})
DataBody(names) == FigmaResponse("resolves", Http200, "OK", "data", <<>>, names)

(* response.ok *)
Ok(r) == r.status[1] = "2"

FigmaNames == {<<"color", "/", "primary">>, <<"text", "/", "body">>}

HttpFailures ==
    {HttpFailure(Http401, "Unauthorized"), HttpFailure(Http403, "Forbidden"),
     HttpFailure(Http404, "Not Found"), HttpFailure(Http500, "Internal Server Error")}

(* A syntax error at the start of the body and one at position 4031.       *)
MalformedBodies == {MalformedBody(<<"0">>), MalformedBody(<<"4", "0", "3", "1">>)}

FigmaResponses ==
    {FetchRejects, NoMetaBody, ErrorBody(<<"4", "0", "0">>)}
        \cup HttpFailures \cup MalformedBodies
        \cup {DataBody(n) : n \in {m \in SUBSET FigmaNames : Cardinality(m) <= MaxStyles}}

(* name.replace(/\//g, '.') *)
DotName(name) == [i \in 1..Len(name) |-> IF name[i] = "/" THEN "." ELSE name[i]]

(* What a strategy resolves with (tokens, the dotted names that were set)  *)
(* or rejects with (err).                                                  *)
Synced(tokens) == [err |-> NoError, tokens |-> tokens]
SyncFailed(e) == [err |-> e, tokens |-> {}]

FetchFailed == NewError(<<"fetch failed">>)
JsonSyntaxError(position) ==
    NewError(<<"Unexpected", " ", "token", " ", "in", " ", "JSON", " ", "at", " ", "position", " ">>
             \o position)
StatusLine(r) == r.status \o <<" ", r.statusText>>

(* candidateSelector.ts 128-157 *)
trySyncVariables(r) ==
    IF r.fetch = "rejects" THEN SyncFailed(FetchFailed)
    ELSE IF ~Ok(r) THEN SyncFailed(NewError(StatusLine(r)))
    ELSE IF r.body = "malformed" THEN SyncFailed(JsonSyntaxError(r.detail))
    ELSE IF r.body = "error"
         THEN SyncFailed(NewError(<<"{", "status", ":">> \o r.detail
                                  \o <<",", "error", ":", "true", "}">>))
    ELSE IF r.body = "nometa" THEN SyncFailed(TypeError)
    ELSE Synced({DotName(n) : n \in r.names})

(* candidateSelector.ts 159-171: the list of the styles; names are the     *)
(* styles found.                                                           *)
ListStyles(r) ==
    IF r.fetch = "rejects" THEN SyncFailed(FetchFailed)
    ELSE IF ~Ok(r) THEN SyncFailed(NewError(<<"Styles API: ">> \o StatusLine(r)))
    ELSE IF r.body = "malformed" THEN SyncFailed(JsonSyntaxError(r.detail))
    ELSE IF r.body \in {"error", "nometa"} THEN SyncFailed(NewError(<<"Invalid Styles response">>))
    ELSE Synced(r.names)

(* candidateSelector.ts 178-222: the nodes of the styles; a style whose    *)
(* node is missing is skipped.                                             *)
ReadNodes(styles, r) ==
    IF r.fetch = "rejects" THEN SyncFailed(FetchFailed)
    ELSE IF ~Ok(r) THEN SyncFailed(NewError(<<"Nodes API: ">> \o StatusLine(r)))
    ELSE IF r.body = "malformed" THEN SyncFailed(JsonSyntaxError(r.detail))
    ELSE IF r.body \in {"error", "nometa"} THEN SyncFailed(TypeError)
    ELSE Synced({DotName(n) : n \in styles \cap r.names})

(* error.message.includes(text) *)
MessageIncludes(e, text) == IndexOf(MessageProp(e), text) # 0

(* Variant of FallsBack that tests for 403 only.                           *)
FallsBackForbiddenOnly(e) == MessageIncludes(e, Http403)

(* candidateSelector.ts 103 *)
FallsBack(e) == MessageIncludes(e, Http403) \/ MessageIncludes(e, Http404)

BothFailed == NewError(<<"sync", "from", "Variables", "and", "Styles", "failed">>)

NoFile == [exists |-> FALSE, content |-> {}]
FileOf(tokens) == [exists |-> TRUE, content |-> tokens]

(* ------------------------------- state --------------------------------- *)
VARIABLES
    apiKey,         \* argument apiKey (NoKey: not passed)
    provider,       \* argument provider
    env,            \* process.env: OPENAI_API_KEY, GEMINI_API_KEY
    modelName,      \* argument modelName (NoModel: not pinned)
    rules,          \* argument rules
    replies,        \* the response texts the provider can return in this run
    pc,             \* position in runAIRules
    activeProvider,
    finalApiKey,
    ruleIdx,        \* index of the rule of the for loop
    modelIdx,       \* index of currentModelName in modelNames
    lastError,
    jsonContent,
    diagnostics,
    promptCalls,    \* rules whose prompt builder was called, in call order
    requests,       \* provider requests issued, in issue order
    pending,        \* requests issued and not yet answered
    status,         \* per rule: "pending", "ok" or "failed"
    caught,         \* the error the per-rule catch block received
    lastReply,      \* what the last answered request returned or threw
    lastLog         \* the last console message, by kind

vars == <<apiKey, provider, env, modelName, rules, replies, pc, activeProvider,
          finalApiKey, ruleIdx, modelIdx, lastError, jsonContent, diagnostics,
          promptCalls, requests, pending, status, caught, lastReply, lastLog>>

inputs == <<apiKey, provider, env, modelName, rules, replies>>

VARIABLES
    tokens,             \* the tokens of the run
    config,             \* argument config of runStaticRules (cfg.rules in a lint run)
    codeFiles,          \* argument codeFiles
    spc,                \* position in runStaticRules
    staticDiagnostics,  \* the diagnostics array of runStaticRules
    evaluated,          \* the static rules whose function was called
    staticError,        \* what runStaticRules threw
    lpc,                \* position in the lint action of the cli
    diags,              \* the diags array of the lint action
    exitCode,           \* the exit code of the process, "running" before the exit
    customRules,        \* cfg.rules['custom-rules'] of the lint run
    candidateTokens     \* the tokens the lint action passes to runAIRules

staticVars == <<tokens, config, codeFiles, spc, staticDiagnostics, evaluated, staticError>>
lintVars == <<lpc, diags, exitCode, customRules, candidateTokens>>

VARIABLES
    tokensJson,         \* the parsed tokens document
    tpc,                \* position in loadTokensFromJson
    loaded,             \* the tokens loadTokensFromJson resolved with
    loadError           \* what loadTokensFromJson rejected with

loadVars == <<tokensJson, tpc, loaded, loadError>>

VARIABLES
    promptText,         \* the text of the prompt file
    promptTokens,       \* the tokens of the prompt context
    promptFiles,        \* context.codeFiles of a custom rule
    promptKey,          \* argument apiKey of runCustomPrompt
    promptEnv,          \* process.env of the runCustomPrompt run
    ppc,                \* position in runCustomPrompt or in the prompt builder
    finalPrompt,        \* the prompt that is sent
    promptProvider,     \* argument provider of runCustomPrompt
    promptModelName,    \* argument modelName of runCustomPrompt
    outputJson,         \* argument outputJson of runCustomPrompt
    promptModelIdx,     \* index of currentModelName in modelNames
    promptLastError,    \* lastError of the Gemini branch
    promptReply,        \* what the last request returned or threw
    responseContent,    \* the string runCustomPrompt returns
    promptThrown        \* the error runCustomPrompt throws

promptArgs == <<promptText, promptTokens, promptFiles, promptKey, promptEnv,
                promptProvider, promptModelName, outputJson>>
promptVars == <<promptArgs, ppc, finalPrompt, promptModelIdx, promptLastError,
                promptReply, responseContent, promptThrown>>

VARIABLES
    reportDiagnostics,  \* argument diagnostics of generateJSONReport
    outputPath,         \* argument outputPath (NoPath: not passed)
    rpc,                \* position in generateJSONReport
    jsonString,         \* what generateJSONReport resolved with
    written             \* the content of the file at outputPath

reportVars == <<reportDiagnostics, outputPath, rpc, jsonString, written>>

VARIABLES
    fpc,                \* position in syncFigmaTokens
    figmaRequests,      \* the API requests sent, in order
    variablesResponse,  \* what the Variables API request gave
    stylesResponse,     \* what the Styles API request gave
    nodesResponse,      \* what the Nodes API request gave
    figmaTokens,        \* tokens
    figmaSource,        \* source
    figmaFile,          \* the file at outputPath
    syncThrown          \* what syncFigmaTokens rejected with

syncVars == <<fpc, figmaRequests, variablesResponse, stylesResponse, nodesResponse,
              figmaTokens, figmaSource, figmaFile, syncThrown>>

toolVars == <<loadVars, promptVars, reportVars, syncVars>>
allVars == <<vars, staticVars, lintVars, toolVars>>

(* The functions that are called on their own, at rest.                    *)
LoadIdle ==
    /\ tokensJson = JNull
    /\ tpc = "idle"
    /\ loaded = <<>>
    /\ loadError = NoError

NoEnvironment == [OPENAI_API_KEY |-> NoKey, GEMINI_API_KEY |-> NoKey]

PromptIdle ==
    /\ promptText = <<>>
    /\ promptTokens = <<>>
    /\ promptFiles = <<>>
    /\ promptKey = NoKey
    /\ promptEnv = NoEnvironment
    /\ ppc = "idle"
    /\ finalPrompt = <<>>
    /\ promptProvider = "openai"
    /\ promptModelName = NoModel
    /\ outputJson = FALSE
    /\ promptModelIdx = 1
    /\ promptLastError = NoError
    /\ promptReply = NoReply
    /\ responseContent = <<>>
    /\ promptThrown = NoError

ReportIdle ==
    /\ reportDiagnostics = <<>>
    /\ outputPath = NoPath
    /\ rpc = "idle"
    /\ jsonString = NoReport
    /\ written = NoReport

SyncIdle ==
    /\ fpc = "idle"
    /\ figmaRequests = <<>>
    /\ variablesResponse = NoResponse
    /\ stylesResponse = NoResponse
    /\ nodesResponse = NoResponse
    /\ figmaTokens = {}
    /\ figmaSource = ""
    /\ figmaFile = NoFile
    /\ syncThrown = NoError

ToolsIdle == LoadIdle /\ PromptIdle /\ ReportIdle /\ SyncIdle

(* The static rules and the lint action at rest: runAIRules is called on   *)
(* its own.                                                                *)
StaticIdle ==
    /\ tokens = <<>>
    /\ config = Config(Absent, Absent, Absent)
    /\ codeFiles = NoCodeFiles
    /\ spc = "idle"
    /\ staticDiagnostics = <<>>
    /\ evaluated = {}
    /\ staticError = NoError

LintIdle ==
    /\ lpc = "none"
    /\ diags = <<>>
    /\ exitCode = "running"
    /\ customRules = <<>>
    /\ candidateTokens = <<>>

Providers == {"openai", "gemini"}

RuleLists ==
    UNION {{[i \in 1..n |-> [id |-> RuleIds[i], severity |-> RuleSeverities[i], schema |-> k[i]]] :
                k \in [1..n -> SchemaKinds]} : n \in 0..MaxRules}

Environments == [OPENAI_API_KEY : {NoKey, "sk-openai"}, GEMINI_API_KEY : {NoKey, "sk-gemini"}]

(* Credentials from one environment variable, arguments left at defaults.  *)
EnvOnly ==
    /\ apiKey = NoKey
    /\ provider = "openai"
    /\ (env.OPENAI_API_KEY = NoKey) # (env.GEMINI_API_KEY = NoKey)

(* The runs explored: every combination of credentials with at most one    *)
(* rule; one rule with every response text; several rules.                 *)
Init ==
    /\ apiKey \in {NoKey, "sk-arg"}
    /\ provider \in Providers
    /\ env \in Environments
    /\ modelName \in {NoModel, "pinned-model"}
    /\ rules \in RuleLists
    /\ replies \in {CoreTexts, ResponseTexts}
    /\ \/ Len(rules) <= 1 /\ replies = CoreTexts
       \/ Len(rules) = 1 /\ replies = ResponseTexts /\ EnvOnly
       \/ Len(rules) >= 2 /\ replies = CoreTexts /\ EnvOnly
    /\ pc = "start"
    /\ StaticIdle
    /\ LintIdle
    /\ activeProvider = provider
    /\ finalApiKey = apiKey
    /\ ruleIdx = 1
    /\ modelIdx = 1
    /\ lastError = NoError
    /\ jsonContent = JsonUndefined
    /\ diagnostics = <<>>
    /\ promptCalls = <<>>
    /\ requests = <<>>
    /\ pending = {}
    /\ status = [i \in 1..Len(rules) |-> "pending"]
    /\ caught = NoError
    /\ lastReply = NoReply
    /\ lastLog = "none"
    /\ ToolsIdle

(* Variant of ResolvedProvider that looks at GEMINI_API_KEY first.          *)
ResolvedProviderGeminiFirst(key, prov, e) ==
    IF key # NoKey THEN prov
    ELSE IF e.GEMINI_API_KEY # NoKey THEN "gemini"
    ELSE IF e.OPENAI_API_KEY # NoKey THEN "openai"
    ELSE prov

(* Variant of ResolvedKey that goes on with a placeholder key when no      *)
(* credential is found.                                                    *)
ResolvedKeyPlaceholder(key, e) ==
    IF key # NoKey THEN key
    ELSE IF e.OPENAI_API_KEY # NoKey THEN e.OPENAI_API_KEY
    ELSE IF e.GEMINI_API_KEY # NoKey THEN e.GEMINI_API_KEY
    ELSE "undefined"

(* aiRunner.ts 41-53: provider and credential resolution.                  *)
ResolvedProvider(key, prov, e) ==
    IF key # NoKey THEN prov
    ELSE IF e.OPENAI_API_KEY # NoKey THEN "openai"
    ELSE IF e.GEMINI_API_KEY # NoKey THEN "gemini"
    ELSE prov

ResolvedKey(key, e) ==
    IF key # NoKey THEN key
    ELSE IF e.OPENAI_API_KEY # NoKey THEN e.OPENAI_API_KEY
    ELSE IF e.GEMINI_API_KEY # NoKey THEN e.GEMINI_API_KEY
    ELSE NoKey

(* aiRunner.ts 38-70 *)
Resolve ==
    /\ pc = "start"
    /\ activeProvider' = ResolvedProvider(apiKey, provider, env)
    /\ finalApiKey' = ResolvedKey(apiKey, env)
    /\ IF finalApiKey' = NoKey
       THEN pc' = "done" /\ lastLog' = "skip-warning"
       ELSE pc' = "rule" /\ lastLog' = "provider-used"
    /\ UNCHANGED <<inputs, ruleIdx, modelIdx, lastError, jsonContent, diagnostics,
                   promptCalls, requests, pending, status, caught, lastReply>>
    /\ UNCHANGED <<staticVars, lintVars, toolVars>>

(* aiRunner.ts 290-314: the per-rule catch block, then the next rule.  The *)
(* locals of the rule go out of scope.                                     *)
RuleFails(e) ==
    /\ caught' = e
    /\ status' = [status EXCEPT ![ruleIdx] = "failed"]
    /\ lastLog' = "rule-error"
    /\ lastError' = NoError
    /\ IF CatchThrows(e)
       THEN pc' = "aborted" /\ ruleIdx' = ruleIdx
       ELSE pc' = "rule" /\ ruleIdx' = ruleIdx + 1

PromptOutcomes == {NoError, NewError(<<"prompt", "failed">>), ThrownUndefined}

(* Variant of StartRule that goes on with the model the previous rule      *)
(* ended at.                                                               *)
StartRuleKeepsModel ==
    /\ pc = "rule"
    /\ ruleIdx <= Len(rules)
    /\ promptCalls' = Append(promptCalls, ruleIdx)
    /\ modelIdx' = modelIdx
    /\ jsonContent' = JsonUndefined
    /\ lastReply' = NoReply
    /\ \E thrown \in PromptOutcomes :
         IF thrown = NoError
         THEN /\ pc' = "loop"
              /\ caught' = NoError
              /\ lastLog' = "rule-running"
              /\ lastError' = NoError
              /\ UNCHANGED <<ruleIdx, status>>
         ELSE RuleFails(thrown)
    /\ UNCHANGED <<inputs, activeProvider, finalApiKey, diagnostics, requests, pending>>
    /\ UNCHANGED <<staticVars, lintVars, toolVars>>

(* aiRunner.ts 72-84: the head of the loop body: rule.prompt(context) and  *)
(* the fresh locals of the rule.                                           *)
StartRule ==
    /\ pc = "rule"
    /\ ruleIdx <= Len(rules)
    /\ promptCalls' = Append(promptCalls, ruleIdx)
    /\ modelIdx' = 1
    /\ jsonContent' = JsonUndefined
    /\ lastReply' = NoReply
    /\ \E thrown \in PromptOutcomes :
         IF thrown = NoError
         THEN /\ pc' = "loop"
              /\ caught' = NoError
              /\ lastLog' = "rule-running"
              /\ lastError' = NoError
              /\ UNCHANGED <<ruleIdx, status>>
         ELSE RuleFails(thrown)
    /\ UNCHANGED <<inputs, activeProvider, finalApiKey, diagnostics, requests, pending>>
    /\ UNCHANGED <<staticVars, lintVars, toolVars>>

CurrentModels == ModelNames(activeProvider, modelName)

(* Variant of SendRequest that does not await the response before it      *)
(* issues the request to the next candidate model.                         *)
SendRequestNoAwait ==
    /\ pc = "loop"
    /\ modelIdx <= Len(CurrentModels)
    /\ LET req == [rule |-> ruleIdx, provider |-> activeProvider,
                   model |-> CurrentModels[modelIdx], key |-> finalApiKey]
       IN /\ requests' = Append(requests, req)
          /\ pending' = pending \cup {req}
    /\ IF modelIdx < Len(CurrentModels)
       THEN pc' = "loop" /\ modelIdx' = modelIdx + 1
       ELSE pc' = "await" /\ modelIdx' = modelIdx
    /\ UNCHANGED <<inputs, activeProvider, finalApiKey, ruleIdx, lastError,
                   jsonContent, diagnostics, promptCalls, status, caught, lastReply, lastLog>>
    /\ UNCHANGED <<staticVars, lintVars, toolVars>>

(* aiRunner.ts 86-93 and 173-179: one completion request is issued.        *)
SendRequest ==
    /\ pc = "loop"
    /\ modelIdx <= Len(CurrentModels)
    /\ LET req == [rule |-> ruleIdx, provider |-> activeProvider,
                   model |-> CurrentModels[modelIdx], key |-> finalApiKey]
       IN /\ requests' = Append(requests, req)
          /\ pending' = pending \cup {req}
    /\ pc' = "await"
    /\ UNCHANGED <<inputs, activeProvider, finalApiKey, ruleIdx, modelIdx, lastError,
                   jsonContent, diagnostics, promptCalls, status, caught, lastReply, lastLog>>
    /\ UNCHANGED <<staticVars, lintVars, toolVars>>

(* The rule ends without error (aiRunner.ts 271-289, then the next rule).  *)
RuleSucceeds ==
    /\ status' = [status EXCEPT ![ruleIdx] = "ok"]
    /\ ruleIdx' = ruleIdx + 1
    /\ pc' = "rule"
    /\ lastError' = NoError
    /\ UNCHANGED caught

(* After the fallback loop: the rest of the rule on the parsed response.   *)
Complete(json, log) ==
    LET f == Finish(rules[ruleIdx], json)
    IN /\ jsonContent' = json
       /\ diagnostics' = diagnostics \o f.diags
       /\ IF f.err # NoError
          THEN RuleFails(f.err)
          ELSE RuleSucceeds /\ lastLog' = log

(* The request returns or throws (aiRunner.ts 94-161 and 180-246); the     *)
(* rest of the loop iteration runs, then either the next iteration is      *)
(* reached or the loop ends and the rule runs to its end.                  *)
Respond ==
    /\ pc = "await"
    /\ pending' = {}
    /\ \E o \in Outcomes(replies) :
         LET a == Attempt(activeProvider, modelName, CurrentModels[modelIdx], o, lastError)
             ex == ExhaustedError(activeProvider, modelName, a.last)
         IN /\ lastReply' = o
            /\ CASE a.kind = "success" ->
                      /\ Complete(a.json, a.log)
                      /\ UNCHANGED modelIdx
                 [] a.kind = "throw" ->
                      /\ RuleFails(a.err)
                      /\ UNCHANGED <<modelIdx, jsonContent, diagnostics>>
                 [] a.kind = "continue" /\ modelIdx < Len(CurrentModels) ->
                      /\ modelIdx' = modelIdx + 1
                      /\ pc' = "loop"
                      /\ lastLog' = a.log
                      /\ lastError' = a.last
                      /\ UNCHANGED <<jsonContent, diagnostics, ruleIdx, status, caught>>
                 [] a.kind = "continue" /\ modelIdx >= Len(CurrentModels) /\ ex # NoError ->
                      /\ RuleFails(ex)
                      /\ UNCHANGED <<modelIdx, jsonContent, diagnostics>>
                 [] OTHER ->
                      /\ Complete(JsonUndefined, a.log)
                      /\ UNCHANGED modelIdx
    /\ UNCHANGED <<inputs, activeProvider, finalApiKey, promptCalls, requests>>
    /\ UNCHANGED <<staticVars, lintVars, toolVars>>

(* aiRunner.ts 317 *)
Return ==
    /\ pc = "rule"
    /\ ruleIdx > Len(rules)
    /\ pc' = "done"
    /\ UNCHANGED <<inputs, activeProvider, finalApiKey, ruleIdx, modelIdx, lastError,
                   jsonContent, diagnostics, promptCalls, requests, pending, status,
                   caught, lastReply, lastLog>>
    /\ UNCHANGED <<staticVars, lintVars, toolVars>>

Next == Resolve \/ StartRule \/ SendRequest \/ Respond \/ Return

Spec == Init /\ [][Next]_allVars

(* Every provider request returns or throws, and the event loop runs the   *)
(* continuation of every awaited promise: a step that is possible is       *)
(* taken.                                                                  *)
SpecFair == Init /\ [][Next]_allVars /\ WF_allVars(Next)

(* ======================= runStaticRules, step by step ================== *)
AIIdle ==
    /\ apiKey = NoKey
    /\ provider = "openai"
    /\ env = [OPENAI_API_KEY |-> NoKey, GEMINI_API_KEY |-> NoKey]
    /\ modelName = NoModel
    /\ rules = <<>>
    /\ replies = CoreTexts
    /\ pc = "idle"
    /\ activeProvider = provider
    /\ finalApiKey = apiKey
    /\ ruleIdx = 1
    /\ modelIdx = 1
    /\ lastError = NoError
    /\ jsonContent = JsonUndefined
    /\ diagnostics = <<>>
    /\ promptCalls = <<>>
    /\ requests = <<>>
    /\ pending = {}
    /\ status = <<>>
    /\ caught = NoError
    /\ lastReply = NoReply
    /\ lastLog = "none"

(* A call of runStaticRules on its own (staticRunner.ts 11-12).            *)
InitStatic ==
    /\ \E in \in StaticInputs :
         /\ tokens = in.tokens
         /\ config = in.config
         /\ codeFiles = in.codeFiles
    /\ spc = "naming"
    /\ staticDiagnostics = <<>>
    /\ evaluated = {}
    /\ staticError = NoError
    /\ LintIdle
    /\ AIIdle
    /\ ToolsIdle

(* A static rule returned r: its diagnostics are pushed, or its error      *)
(* leaves runStaticRules, which has no try block.                          *)
StaticRuleDone(id, r, next) ==
    /\ evaluated' = evaluated \cup {id}
    /\ IF r.err # NoError
       THEN /\ spc' = "thrown"
            /\ staticError' = r.err
            /\ UNCHANGED staticDiagnostics
       ELSE /\ spc' = next
            /\ staticDiagnostics' = staticDiagnostics \o r.diags
            /\ UNCHANGED staticError

StaticRuleSkipped(next) ==
    /\ spc' = next
    /\ UNCHANGED <<staticDiagnostics, evaluated, staticError>>

(* staticRunner.ts 14-19 *)
NamingRule ==
    /\ spc = "naming"
    /\ IF config["naming-convention"].present
       THEN StaticRuleDone("naming-convention",
                           NamingStep(tokens, config["naming-convention"]), "color")
       ELSE StaticRuleSkipped("color")
    /\ UNCHANGED <<tokens, config, codeFiles, vars, lintVars, toolVars>>

(* staticRunner.ts 21-24 *)
RawColorRule ==
    /\ spc = "color"
    /\ IF config["raw-color"].present /\ config["raw-color"].enabled /\ codeFiles.given
       THEN StaticRuleDone("raw-color",
                           detectRawColors(codeFiles.files, tokens, config["raw-color"].severity),
                           "pixel")
       ELSE StaticRuleSkipped("pixel")
    /\ UNCHANGED <<tokens, config, codeFiles, vars, lintVars, toolVars>>

(* Variant of RawPixelRule that reverses the token array in place.         *)
RawPixelRuleReordersTokens ==
    /\ spc = "pixel"
    /\ IF config["raw-pixel"].present /\ config["raw-pixel"].enabled /\ codeFiles.given
       THEN StaticRuleDone("raw-pixel",
                           StaticResult(detectRawPixels(codeFiles.files, tokens,
                                                        config["raw-pixel"].severity), NoError),
                           "return")
       ELSE StaticRuleSkipped("return")
    /\ tokens' = [i \in 1..Len(tokens) |-> tokens[Len(tokens) + 1 - i]]
    /\ UNCHANGED <<config, codeFiles, vars, lintVars, toolVars>>

(* staticRunner.ts 26-29 *)
RawPixelRule ==
    /\ spc = "pixel"
    /\ IF config["raw-pixel"].present /\ config["raw-pixel"].enabled /\ codeFiles.given
       THEN StaticRuleDone("raw-pixel",
                           StaticResult(detectRawPixels(codeFiles.files, tokens,
                                                        config["raw-pixel"].severity), NoError),
                           "return")
       ELSE StaticRuleSkipped("return")
    /\ UNCHANGED <<tokens, config, codeFiles, vars, lintVars, toolVars>>

(* staticRunner.ts 31 *)
StaticReturn ==
    /\ spc = "return"
    /\ spc' = "done"
    /\ UNCHANGED <<tokens, config, codeFiles, staticDiagnostics, evaluated, staticError,
                   vars, lintVars, toolVars>>

NextStatic == NamingRule \/ RawColorRule \/ RawPixelRule \/ StaticReturn

SpecStatic == InitStatic /\ [][NextStatic]_allVars

(* ========================== loadCustomRules ============================ *)
(* part_012 7-13: an entry of custom-rules.  prompt and schema stand for    *)
(* what the loader finds at the two paths: the prompt file is there and     *)
(* readable ("ok"), not there ("missing") or there and not readable         *)
(* ("unreadable"); the schema file is there and exports a schema ("ok"),    *)
(* not there ("missing"), fails to load ("load-error"), exports nothing     *)
(* under schema or default ("no-export") or exports a value without a       *)
(* parse function ("no-parse").                                             *)
CustomRuleConfig(id, severity, prompt, schema) ==
    [id |-> id, severity |-> severity, prompt |-> prompt, schema |-> schema]

(* part_012 27-193: what the loop does with one entry.  existsSync false    *)
(* continues (30-33, 39-42), a readFile error reaches the catch of the loop *)
(* body (189-192), an error of the schema module reaches the inner catch,   *)
(* which continues (154-158); none of them leaves the loop.                 *)
LoadOutcome(c) ==
    IF c.prompt = "missing" THEN "warned"
    ELSE IF c.prompt = "unreadable" THEN "caught"
    ELSE IF c.schema = "missing" THEN "warned"
    ELSE IF c.schema # "ok" THEN "caught"
    ELSE "pushed"

(* part_012 160-187 *)
CustomRule(c) == [id |-> c.id, severity |-> c.severity, schema |-> "zod"]

(* part_012 20-195 *)
loadCustomRules(customRulesConfig) ==
    LET pushed == SelectSeq(customRulesConfig, LAMBDA c : LoadOutcome(c) = "pushed")
    IN [i \in 1..Len(pushed) |-> CustomRule(pushed[i])]

(* ==================== the lint action of the cli ======================= *)
(* cli.ts 226-230: the built-in AI rules, as many as the bound allows.     *)
LintRules ==
    [i \in 1..(IF MaxRules < 3 THEN MaxRules ELSE 3) |->
        [id |-> RuleIds[i], severity |-> RuleSeverities[i], schema |-> "zod"]]

StylesFile ==
    CodeFile("a.css", JoinLines(<<Declaration(<<"#", "4", "2", "8", "5", "F", "4">>),
                                  <<"width:", " ", "1", "6", "px", ";">>>>))

(* The token sets, rule configurations and code files of the lint runs.    *)
LintInputs ==
    {[tokens |-> <<>>,
      config |-> Config(NamingConfig("error", "cli-default"), Absent, Absent),
      codeFiles |-> CodeFiles(<<>>)],
     [tokens |-> <<OtherToken(<<"B", "_", "a">>)>>,
      config |-> Config(NamingConfig("error", "cli-default"), Absent, Absent),
      codeFiles |-> CodeFiles(<<>>)],
     [tokens |-> ColorTokens(<<StringValue(<<"#", "f", "f", "0">>)>>)
                    \o <<OtherToken(<<"B", "_", "a">>)>>,
      config |-> Config(NamingConfig("warn", "cli-default"), Absent, Absent),
      codeFiles |-> CodeFiles(<<StylesFile>>)],
     [tokens |-> ColorTokens(<<StringValue(<<"#", "f", "f", "0">>)>>),
      config |-> Config(Absent, RawConfig("info", TRUE), RawConfig("error", FALSE)),
      codeFiles |-> CodeFiles(<<StylesFile>>)],
     [tokens |-> <<OtherToken(<<"a", ".", "a">>)>>,
      config |-> Config(NamingConfig("error", "invalid"), Absent, Absent),
      codeFiles |-> CodeFiles(<<StylesFile>>)]}

(* Rule entries of designlintrc.json without a severity and with a         *)
(* severity that is none of the three.                                     *)
SeverityInputs ==
    {[tokens |-> ColorTokens(<<StringValue(<<"#", "f", "f", "0">>)>>),
      config |-> Config(Absent, RawConfig(Undef, TRUE), RawConfig("warn", FALSE)),
      codeFiles |-> CodeFiles(<<StylesFile>>)],
     [tokens |-> <<OtherToken(<<"B", "_", "a">>)>>,
      config |-> Config(NamingConfig("critical", "readme"), Absent, Absent),
      codeFiles |-> CodeFiles(<<>>)]}

(* What designlintrc.json can hold under custom-rules: one entry whose      *)
(* files load, with a severity of the three, another word or none; one      *)
(* entry with a file that does not load; such an entry before one that      *)
(* loads.                                                                   *)
CustomRuleLists ==
    {<<CustomRuleConfig("custom-rule", sev, "ok", "ok")>> : sev \in {"warn", "critical", Undef}}
        \cup {<<CustomRuleConfig("custom-rule", "error", pf, "ok")>> : pf \in {"missing", "unreadable"}}
        \cup {<<CustomRuleConfig("custom-rule", "error", "ok", sf)>> :
                  sf \in {"missing", "load-error", "no-export", "no-parse"}}
        \cup {<<CustomRuleConfig("broken-rule", "error", "missing", "ok"),
                 CustomRuleConfig("custom-rule", "error", "ok", "ok")>>}

CustomInput ==
    [tokens |-> <<OtherToken(<<"a", ".", "a">>)>>,
     config |-> Config(NamingConfig("error", "cli-default"), Absent, Absent),
     codeFiles |-> CodeFiles(<<>>)]

(* The lint action after the tokens, the configuration and the code files  *)
(* are loaded (cli.ts 189).                                                *)
InitLint ==
    /\ env \in Environments
    /\ modelName \in {NoModel, "pinned-model"}
    /\ \E in \in LintInputs \cup SeverityInputs \cup {CustomInput} :
         /\ tokens = in.tokens
         /\ config = in.config
         /\ codeFiles = in.codeFiles
         /\ \/ in \in LintInputs /\ customRules = <<>> /\ replies = CoreTexts
            \/ /\ in \in SeverityInputs /\ customRules = <<>> /\ replies = CoreTexts
               /\ env.OPENAI_API_KEY = NoKey /\ env.GEMINI_API_KEY = NoKey
               /\ modelName = NoModel
            \/ /\ in = CustomInput
               /\ customRules \in CustomRuleLists
               /\ replies = {Stringify(IssuesObject(<<>>)), Stringify(IssuesObject(<<"E1">>))}
               /\ env.OPENAI_API_KEY # NoKey /\ env.GEMINI_API_KEY = NoKey
               /\ modelName = NoModel
    /\ spc = "idle"
    /\ staticDiagnostics = <<>>
    /\ evaluated = {}
    /\ staticError = NoError
    /\ lpc = "config"
    /\ diags = <<>>
    /\ exitCode = "running"
    /\ candidateTokens = <<>>
    /\ apiKey = NoKey
    /\ provider = "openai"
    /\ rules = LintRules
    /\ pc = "idle"
    /\ activeProvider = provider
    /\ finalApiKey = apiKey
    /\ ruleIdx = 1
    /\ modelIdx = 1
    /\ lastError = NoError
    /\ jsonContent = JsonUndefined
    /\ diagnostics = <<>>
    /\ promptCalls = <<>>
    /\ requests = <<>>
    /\ pending = {}
    /\ status = [i \in 1..Len(rules) |-> "pending"]
    /\ caught = NoError
    /\ lastReply = NoReply
    /\ lastLog = "none"
    /\ ToolsIdle

(* cli.ts 196-204: raw-color and raw-pixel are switched on when code files *)
(* were found and the configuration has no entry for them.                 *)
RulesConfig(cfg, files) ==
    [r \in StaticRuleIds |->
        IF r # "naming-convention" /\ files.given /\ Len(files.files) > 0 /\ ~cfg[r].present
        THEN RawConfig("warn", TRUE)
        ELSE cfg[r]]

(* cli.ts 189-206: runStaticRules is called.                               *)
LintStatic ==
    /\ lpc = "config"
    /\ config' = RulesConfig(config, codeFiles)
    /\ spc' = "naming"
    /\ lpc' = "static"
    /\ UNCHANGED <<tokens, codeFiles, staticDiagnostics, evaluated, staticError,
                   diags, exitCode, customRules, candidateTokens, vars, toolVars>>

(* cli.ts 206-207 *)
LintCollectStatic ==
    /\ lpc = "static"
    /\ spc = "done"
    /\ diags' = diags \o staticDiagnostics
    /\ lpc' = "select"
    /\ UNCHANGED <<toolVars, staticVars, exitCode, customRules, candidateTokens, vars>>

(* Variant of selectAICandidates that passes on only the tokens a static   *)
(* diagnostic names.                                                       *)
selectAICandidatesFlagged(toks, staticDiags) ==
    SelectSeq(toks, LAMBDA t :
        \E i \in 1..Len(staticDiags) :
            staticDiags[i].ruleId = "naming-convention" /\ staticDiags[i].tokenName = t.name)

(* candidateSelector.ts 12-21 *)
selectAICandidates(toks, staticDiags) == toks

(* cli.ts 209-258: runAIRules is called when a key is set and there are    *)
(* candidate tokens, with the built-in rules followed by the custom rules  *)
(* that loadCustomRules returned (226-243).                                *)
LintCallAI ==
    /\ lpc = "select"
    /\ candidateTokens' = selectAICandidates(tokens, staticDiagnostics)
    /\ LET hasAIKey == env.OPENAI_API_KEY # NoKey \/ env.GEMINI_API_KEY # NoKey
       IN IF hasAIKey /\ Len(candidateTokens') > 0
          THEN /\ pc' = "start" /\ lpc' = "ai"
               /\ rules' = LintRules \o loadCustomRules(customRules)
          ELSE /\ pc' = pc /\ lpc' = "report"
               /\ rules' = rules
    /\ status' = [i \in 1..Len(rules') |-> "pending"]
    /\ UNCHANGED <<toolVars, staticVars, diags, exitCode, customRules, apiKey, provider, env,
                   modelName, replies, activeProvider, finalApiKey,
                   ruleIdx, modelIdx, lastError, jsonContent, diagnostics, promptCalls,
                   requests, pending, caught, lastReply, lastLog>>

(* Variant of LintCollectAI that puts the AI diagnostics first.            *)
LintCollectAIFirst ==
    /\ lpc = "ai"
    /\ pc = "done"
    /\ diags' = diagnostics \o diags
    /\ lpc' = "report"
    /\ UNCHANGED <<toolVars, staticVars, exitCode, customRules, candidateTokens, vars>>

(* cli.ts 245-253 *)
LintCollectAI ==
    /\ lpc = "ai"
    /\ pc = "done"
    /\ diags' = diags \o diagnostics
    /\ lpc' = "report"
    /\ UNCHANGED <<toolVars, staticVars, exitCode, customRules, candidateTokens, vars>>

(* cli.ts 279-282: d.severity.toUpperCase() throws a TypeError on a        *)
(* diagnostic whose severity is undefined.                                 *)
ReportThrows(ds) == \E i \in 1..Len(ds) : ds[i].severity = Undef

(* cli.ts 272-307: the diagnostics are printed in the order of diags; the  *)
(* process exits with 1 when one of them is an error, and with 0 when the  *)
(* action returns.                                                         *)
LintReport ==
    /\ lpc = "report"
    /\ ~ReportThrows(diags)
    /\ exitCode' = IF \E i \in 1..Len(diags) : diags[i].severity = "error" THEN "1" ELSE "0"
    /\ lpc' = "exit"
    /\ UNCHANGED <<toolVars, staticVars, diags, customRules, candidateTokens, vars>>

(* cli.ts 308-314: an error thrown by runStaticRules, by runAIRules or by  *)
(* the printing of the diagnostics ends the run with exit code 1.          *)
LintCatch ==
    /\ \/ lpc = "static" /\ spc = "thrown"
       \/ lpc = "ai" /\ pc = "aborted"
       \/ lpc = "report" /\ ReportThrows(diags)
    /\ exitCode' = "1"
    /\ lpc' = "failed"
    /\ UNCHANGED <<toolVars, staticVars, diags, customRules, candidateTokens, vars>>

NextLint ==
    \/ LintStatic \/ NamingRule \/ RawColorRule \/ RawPixelRule \/ StaticReturn
    \/ LintCollectStatic \/ LintCallAI
    \/ Resolve \/ StartRule \/ SendRequest \/ Respond \/ Return
    \/ LintCollectAI \/ LintReport \/ LintCatch

SpecLint == InitLint /\ [][NextLint]_allVars

(* ------------------------ loadTokensFromJson --------------------------- *)
InitLoad ==
    /\ tokensJson \in TokenDocs
    /\ tpc = "walk"
    /\ loaded = <<>>
    /\ loadError = NoError
    /\ AIIdle /\ StaticIdle /\ LintIdle /\ PromptIdle /\ ReportIdle /\ SyncIdle

(* tokensJsonAdapter.ts 33-34: walk returned *)
LoadReturns ==
    /\ tpc = "walk"
    /\ loadTokensFromJson(tokensJson).err = NoError
    /\ tpc' = "returned"
    /\ loaded' = loadTokensFromJson(tokensJson).tokens
    /\ UNCHANGED <<tokensJson, loadError, vars, staticVars, lintVars, promptVars, reportVars, syncVars>>

(* tokensJsonAdapter.ts 33: walk threw, the promise rejects *)
LoadRejects ==
    /\ tpc = "walk"
    /\ loadTokensFromJson(tokensJson).err # NoError
    /\ tpc' = "rejected"
    /\ loadError' = loadTokensFromJson(tokensJson).err
    /\ UNCHANGED <<tokensJson, loaded, vars, staticVars, lintVars, promptVars, reportVars, syncVars>>

NextLoad == LoadReturns \/ LoadRejects

SpecLoad == InitLoad /\ [][NextLoad]_allVars

(* ------------- runCustomPrompt and the custom rule prompt -------------- *)
(* The texts a model answers a custom prompt with: nothing, a text, the    *)
(* text inside a fence with and without a language tag, a fence with       *)
(* nothing inside.                                                         *)
CustomTexts ==
    {<<>>, <<"ok">>, Fenced(<<"ok">>), <<Fence, "\n", "ok", "\n", Fence>>,
     Fenced(<<>>), <<Fence, "\n", "\n", Fence>>}

CustomOutcomes == Outcomes(CustomTexts)

(* aiRunner.ts 487-491: the fence opener is json when outputJson is set,   *)
(* and any word or none otherwise.                                         *)
StripPromptFences(text, json) ==
    LET openers == IF json THEN {FenceJson} ELSE {FenceJson, Fence}
        a == IF Len(text) >= 2 /\ text[1] \in openers /\ text[2] = "\n"
             THEN SubSeq(text, 3, Len(text)) ELSE text
    IN IF Len(a) >= 2 /\ a[Len(a) - 1] = "\n" /\ a[Len(a)] = Fence
       THEN SubSeq(a, 1, Len(a) - 2) ELSE a

(* One iteration of a model loop of runCustomPrompt.  kind is "success"    *)
(* (break), "continue" or "throw"; text is the response content, err the   *)
(* error thrown, last the value of lastError afterwards.                   *)
CustomAttempted(kind, text, err, last) ==
    [kind |-> kind, text |-> text, err |-> err, last |-> last]

(* The catch blocks of runCustomPrompt (aiRunner.ts 407-457 and 500-549)   *)
(* are those of runAIRules.                                                *)
CustomCatch(p, pinned, model, e, prev) ==
    LET c == InnerCatch(p, pinned, model, e, prev)
    IN CustomAttempted(c.kind, <<>>, c.err, c.last)

(* aiRunner.ts 381-406 *)
CustomAttemptOpenAI(pinned, model, o, prev) ==
    IF o.kind = "error" THEN CustomCatch("openai", pinned, model, o.err, prev)
    ELSE IF o.text = <<>>
         THEN IF pinned # NoModel
              THEN CustomCatch("openai", pinned, model,
                               NewError(<<"model", model, "returned", "empty", "response">>), prev)
              ELSE CustomAttempted("continue", <<>>, NoError, prev)
    ELSE CustomAttempted("success", o.text, NoError, prev)

(* Variant of CustomAttemptGemini that takes a response that is empty      *)
(* once the fences are removed as the answer.                              *)
CustomAttemptGeminiKeepsEmpty(pinned, json, model, o, prev) ==
    IF o.kind = "error" THEN CustomCatch("gemini", pinned, model, o.err, prev)
    ELSE CustomAttempted("success", StripPromptFences(o.text, json), NoError, prev)

(* aiRunner.ts 471-499 *)
CustomAttemptGemini(pinned, json, model, o, prev) ==
    IF o.kind = "error" THEN CustomCatch("gemini", pinned, model, o.err, prev)
    ELSE LET text == StripPromptFences(o.text, json)
         IN IF text = <<>>
            THEN CustomCatch("gemini", pinned, model,
                             NewError(<<"Empty", "response", "from", "Gemini", "API">>), prev)
            ELSE CustomAttempted("success", text, NoError, prev)

CustomAttempt(p, pinned, json, model, o, prev) ==
    IF p = "openai" THEN CustomAttemptOpenAI(pinned, model, o, prev)
    ELSE CustomAttemptGemini(pinned, json, model, o, prev)

(* activeProvider and modelNames of the runCustomPrompt run.               *)
PromptActiveProvider == ResolvedProvider(promptKey, promptProvider, promptEnv)
PromptModels == ModelNames(PromptActiveProvider, promptModelName)

InitPrompt ==
    /\ promptText \in PromptTexts
    /\ promptTokens \in PromptTokenLists
    /\ \/ /\ ppc = "runCustomPrompt"
          /\ promptFiles = <<>>
          /\ promptKey \in {NoKey, "sk-arg"}
          /\ promptEnv \in Environments
          /\ promptProvider \in Providers
          /\ promptModelName \in {NoModel, "my-model"}
          /\ outputJson \in BOOLEAN
       \/ /\ ppc = "rule.prompt"
          /\ promptFiles \in PromptFileLists
          /\ promptKey = NoKey
          /\ promptEnv = NoEnvironment
          /\ promptProvider = "openai"
          /\ promptModelName = NoModel
          /\ outputJson = FALSE
    /\ finalPrompt = <<>>
    /\ promptModelIdx = 1
    /\ promptLastError = NoError
    /\ promptReply = NoReply
    /\ responseContent = <<>>
    /\ promptThrown = NoError
    /\ AIIdle /\ StaticIdle /\ LintIdle /\ LoadIdle /\ ReportIdle /\ SyncIdle

(* aiRunner.ts 328-344: no credential, runCustomPrompt throws *)
CustomPromptThrows ==
    /\ ppc = "runCustomPrompt"
    /\ ResolvedKey(promptKey, promptEnv) = NoKey
    /\ ppc' = "thrown"
    /\ promptThrown' = NewError(<<"OPENAI_API_KEY", "or", "GEMINI_API_KEY", "not", "set">>)
    /\ UNCHANGED <<promptArgs, finalPrompt, promptModelIdx, promptLastError, promptReply,
                   responseContent>>
    /\ UNCHANGED <<vars, staticVars, lintVars, loadVars, reportVars, syncVars>>

(* aiRunner.ts 328-380: the prompt of the requests; the first request is   *)
(* sent                                                                    *)
CustomPromptBuilds ==
    /\ ppc = "runCustomPrompt"
    /\ ResolvedKey(promptKey, promptEnv) # NoKey
    /\ finalPrompt' = TemplatedPrompt(promptText, promptTokens)
    /\ ppc' = "request"
    /\ UNCHANGED <<promptArgs, promptModelIdx, promptLastError, promptReply,
                   responseContent, promptThrown>>
    /\ UNCHANGED <<vars, staticVars, lintVars, loadVars, reportVars, syncVars>>

(* aiRunner.ts 381-462 and 471-559: the request returns or throws; the     *)
(* rest of the iteration runs, then the next request is sent, or the       *)
(* function returns or throws.                                             *)
CustomPromptResponds ==
    /\ ppc = "request"
    /\ \E o \in CustomOutcomes :
         LET a == CustomAttempt(PromptActiveProvider, promptModelName, outputJson,
                                PromptModels[promptModelIdx], o, promptLastError)
             ex == ExhaustedError(PromptActiveProvider, promptModelName, a.last)
         IN /\ promptReply' = o
            /\ promptLastError' = a.last
            /\ CASE a.kind = "success" ->
                      /\ responseContent' = a.text
                      /\ ppc' = "returned"
                      /\ UNCHANGED <<promptModelIdx, promptThrown>>
                 [] a.kind = "throw" ->
                      /\ promptThrown' = a.err
                      /\ ppc' = "thrown"
                      /\ UNCHANGED <<promptModelIdx, responseContent>>
                 [] a.kind = "continue" /\ promptModelIdx < Len(PromptModels) ->
                      /\ promptModelIdx' = promptModelIdx + 1
                      /\ ppc' = "request"
                      /\ UNCHANGED <<responseContent, promptThrown>>
                 [] a.kind = "continue" /\ promptModelIdx >= Len(PromptModels) /\ ex # NoError ->
                      /\ promptThrown' = ex
                      /\ ppc' = "thrown"
                      /\ UNCHANGED <<promptModelIdx, responseContent>>
                 [] OTHER ->
                      /\ ppc' = "returned"
                      /\ UNCHANGED <<promptModelIdx, responseContent, promptThrown>>
    /\ UNCHANGED <<promptArgs, finalPrompt>>
    /\ UNCHANGED <<vars, staticVars, lintVars, loadVars, reportVars, syncVars>>

(* part_012 166-187: runAIRules calls the prompt builder of the rule *)
RulePromptBuilds ==
    /\ ppc = "rule.prompt"
    /\ finalPrompt' = CustomRulePrompt(promptText, promptTokens, promptFiles)
    /\ ppc' = "built"
    /\ UNCHANGED <<promptArgs, promptModelIdx, promptLastError, promptReply,
                   responseContent, promptThrown>>
    /\ UNCHANGED <<vars, staticVars, lintVars, loadVars, reportVars, syncVars>>

NextPrompt == CustomPromptThrows \/ CustomPromptBuilds \/ CustomPromptResponds \/ RulePromptBuilds

SpecPrompt == InitPrompt /\ [][NextPrompt]_allVars

(* ------------------------- generateJSONReport -------------------------- *)
InitReport ==
    /\ reportDiagnostics \in SeqsUpTo(ReportDiagnostics, MaxDiagnostics)
    /\ outputPath \in {NoPath, "report.json"}
    /\ rpc = "stringified"
    /\ jsonString = NoReport
    /\ written = NoReport
    /\ AIIdle /\ StaticIdle /\ LintIdle /\ LoadIdle /\ PromptIdle /\ SyncIdle

(* jsonReporter.ts 57-63: no path, or the file was written *)
ReportReturns ==
    /\ rpc = "stringified"
    /\ jsonString' = JSONReport(reportDiagnostics)
    /\ written' = IF outputPath # NoPath THEN JSONReport(reportDiagnostics) ELSE written
    /\ rpc' = "returned"
    /\ UNCHANGED <<reportDiagnostics, outputPath>>
    /\ UNCHANGED <<vars, staticVars, lintVars, loadVars, promptVars, syncVars>>

(* jsonReporter.ts 59: writeFile rejects, the promise rejects *)
ReportRejects ==
    /\ rpc = "stringified"
    /\ outputPath # NoPath
    /\ rpc' = "rejected"
    /\ UNCHANGED <<reportDiagnostics, outputPath, jsonString, written>>
    /\ UNCHANGED <<vars, staticVars, lintVars, loadVars, promptVars, syncVars>>

NextReport == ReportReturns \/ ReportRejects

SpecReport == InitReport /\ [][NextReport]_allVars

(* --------------------------- syncFigmaTokens --------------------------- *)
InitSync ==
    /\ fpc = "called"
    /\ figmaRequests = <<>>
    /\ variablesResponse = NoResponse
    /\ stylesResponse = NoResponse
    /\ nodesResponse = NoResponse
    /\ figmaTokens = {}
    /\ figmaSource = ""
    /\ figmaFile \in {NoFile, FileOf({<<"old">>})}
    /\ syncThrown = NoError
    /\ AIIdle /\ StaticIdle /\ LintIdle /\ LoadIdle /\ PromptIdle /\ ReportIdle

(* candidateSelector.ts 89-98 and 129: the Variables API is requested *)
SyncStarts ==
    /\ fpc = "called"
    /\ figmaRequests' = Append(figmaRequests, "variables")
    /\ fpc' = "variables"
    /\ UNCHANGED <<variablesResponse, stylesResponse, nodesResponse, figmaTokens,
                   figmaSource, figmaFile, syncThrown>>
    /\ UNCHANGED <<vars, staticVars, lintVars, loadVars, promptVars, reportVars>>

(* candidateSelector.ts 98-119: trySyncVariables resolves or rejects; on   *)
(* rejection the catch block either requests the Styles API or rethrows    *)
VariablesResponds ==
    /\ fpc = "variables"
    /\ \E r \in FigmaResponses :
         LET v == trySyncVariables(r)
         IN /\ variablesResponse' = r
            /\ IF v.err = NoError
               THEN /\ figmaTokens' = v.tokens
                    /\ figmaSource' = "Variables"
                    /\ fpc' = "write"
                    /\ UNCHANGED <<figmaRequests, syncThrown>>
               ELSE IF FallsBack(v.err)
               THEN /\ figmaRequests' = Append(figmaRequests, "styles")
                    /\ fpc' = "styles"
                    /\ UNCHANGED <<figmaTokens, figmaSource, syncThrown>>
               ELSE /\ syncThrown' = v.err
                    /\ fpc' = "thrown"
                    /\ UNCHANGED <<figmaRequests, figmaTokens, figmaSource>>
    /\ UNCHANGED <<stylesResponse, nodesResponse, figmaFile>>
    /\ UNCHANGED <<vars, staticVars, lintVars, loadVars, promptVars, reportVars>>

(* candidateSelector.ts 107-114 and 161-181: the list of styles arrives;   *)
(* no style gives the empty tokens, otherwise the nodes are requested      *)
StylesResponds ==
    /\ fpc = "styles"
    /\ \E r \in FigmaResponses :
         LET l == ListStyles(r)
         IN /\ stylesResponse' = r
            /\ IF l.err # NoError
               THEN /\ syncThrown' = BothFailed
                    /\ fpc' = "thrown"
                    /\ UNCHANGED <<figmaRequests, figmaTokens, figmaSource>>
               ELSE IF l.tokens = {}
               THEN /\ figmaTokens' = {}
                    /\ figmaSource' = "Styles"
                    /\ fpc' = "write"
                    /\ UNCHANGED <<figmaRequests, syncThrown>>
               ELSE /\ figmaRequests' = Append(figmaRequests, "nodes")
                    /\ fpc' = "nodes"
                    /\ UNCHANGED <<figmaTokens, figmaSource, syncThrown>>
    /\ UNCHANGED <<variablesResponse, nodesResponse, figmaFile>>
    /\ UNCHANGED <<vars, staticVars, lintVars, loadVars, promptVars, reportVars>>

(* candidateSelector.ts 107-114 and 183-222: the nodes arrive *)
NodesRespond ==
    /\ fpc = "nodes"
    /\ \E r \in FigmaResponses :
         LET n == ReadNodes(ListStyles(stylesResponse).tokens, r)
         IN /\ nodesResponse' = r
            /\ IF n.err # NoError
               THEN /\ syncThrown' = BothFailed
                    /\ fpc' = "thrown"
                    /\ UNCHANGED <<figmaTokens, figmaSource>>
               ELSE /\ figmaTokens' = n.tokens
                    /\ figmaSource' = "Styles"
                    /\ fpc' = "write"
                    /\ UNCHANGED syncThrown
    /\ UNCHANGED <<figmaRequests, variablesResponse, stylesResponse, figmaFile>>
    /\ UNCHANGED <<vars, staticVars, lintVars, loadVars, promptVars, reportVars>>

(* candidateSelector.ts 121-123 *)
WriteTokens ==
    /\ fpc = "write"
    /\ figmaFile' = FileOf(figmaTokens)
    /\ fpc' = "done"
    /\ UNCHANGED <<figmaRequests, variablesResponse, stylesResponse, nodesResponse,
                   figmaTokens, figmaSource, syncThrown>>
    /\ UNCHANGED <<vars, staticVars, lintVars, loadVars, promptVars, reportVars>>

(* candidateSelector.ts 122: writeFile rejects *)
WriteRejects ==
    /\ fpc = "write"
    /\ syncThrown' = NewError(<<"EACCES">>)
    /\ fpc' = "thrown"
    /\ UNCHANGED <<figmaRequests, variablesResponse, stylesResponse, nodesResponse,
                   figmaTokens, figmaSource, figmaFile>>
    /\ UNCHANGED <<vars, staticVars, lintVars, loadVars, promptVars, reportVars>>

NextSync ==
    SyncStarts \/ VariablesResponds \/ StylesResponds \/ NodesRespond \/ WriteTokens
        \/ WriteRejects

SpecSync == InitSync /\ [][NextSync]_allVars

(* ============================ properties =============================== *)
RequestsOf(i) == SelectSeq(requests, LAMBDA r : r.rule = i)
DiagsOf(i) == SelectSeq(diagnostics, LAMBDA d : d.ruleId = rules[i].id)
LastRule == requests[Len(requests)].rule
NoCredentials ==
    apiKey = NoKey /\ env.OPENAI_API_KEY = NoKey /\ env.GEMINI_API_KEY = NoKey

(* C1: runAIRules never aborts because one AI rule fails: whatever a rule  *)
(* throws, the call returns normally, and at the return every rule has     *)
(* been executed (its prompt builder called, in list order) and has        *)
(* either succeeded or failed.                                             *)
C1_RuleFailureNeverAborts ==
    /\ pc # "aborted"
    /\ (pc = "done" /\ finalApiKey # NoKey) =>
          /\ promptCalls = [i \in 1..Len(rules) |-> i]
          /\ \A i \in 1..Len(rules) : status[i] \in {"ok", "failed"}

(* C2: without an apiKey argument and with neither OPENAI_API_KEY nor      *)
(* GEMINI_API_KEY set, runAIRules returns an empty list: it never reaches  *)
(* the rule loop, calls no prompt builder and issues no request.           *)
C2_NoCredentialsReturnsEmpty ==
    NoCredentials =>
        /\ pc \in {"start", "done"}
        /\ diagnostics = <<>>
        /\ promptCalls = <<>>
        /\ requests = <<>>

C2_Witness == NoCredentials /\ pc = "done" /\ Len(rules) = 1

(* C3: first match wins: every request of a run goes to the provider       *)
(* argument with the apiKey argument when that is passed, else to OpenAI   *)
(* with OPENAI_API_KEY when that is set, else to Gemini with               *)
(* GEMINI_API_KEY; all requests of a run go to one provider.               *)
C3_FirstMatchWins ==
    \A k \in 1..Len(requests) :
        LET r == requests[k]
        IN /\ r.provider = requests[1].provider
           /\ apiKey # NoKey => r.provider = provider /\ r.key = apiKey
           /\ (apiKey = NoKey /\ env.OPENAI_API_KEY # NoKey) =>
                 r.provider = "openai" /\ r.key = env.OPENAI_API_KEY
           /\ (apiKey = NoKey /\ env.OPENAI_API_KEY = NoKey /\ env.GEMINI_API_KEY # NoKey) =>
                 r.provider = "gemini" /\ r.key = env.GEMINI_API_KEY

C3_Witness ==
    /\ Len(requests) >= 1
    /\ apiKey = NoKey
    /\ provider = "gemini"
    /\ env.OPENAI_API_KEY # NoKey
    /\ env.GEMINI_API_KEY # NoKey
    /\ requests[1].provider = "openai"

C4_DefaultModels(p) ==
    IF p = "openai"
    THEN <<"gpt-4o", "gpt-4-turbo", "gpt-4-turbo-preview", "gpt-3.5-turbo">>
    ELSE <<"gemini-3-pro-preview", "gemini-2.5-flash", "gemini-1.5-flash", "gemini-pro">>

InOrder(rq, expected) ==
    /\ Len(rq) <= Len(expected)
    /\ \A k \in 1..Len(rq) : rq[k].model = expected[k]

ParsesAsJson(reply) ==
    reply.kind = "text" /\ reply.text # <<>> /\ JsonParse(reply.text) # ParseFailed

(* C4: the requests of each rule go to the models of the provider's fixed  *)
(* list in list order (or to the pinned model only), one request per       *)
(* model, and a further model of the same rule is requested only if the    *)
(* previous model did not return a non-empty payload that parses as JSON.  *)
C4_FixedOrderFirstSuccessEnds ==
    /\ \A i \in 1..Len(rules) :
          InOrder(RequestsOf(i),
                  IF modelName # NoModel THEN <<modelName>>
                  ELSE C4_DefaultModels(activeProvider))
    /\ (pc \in {"loop", "await"} /\ modelIdx > 1) => ~ParsesAsJson(lastReply)

C4_Witness ==
    /\ modelName = NoModel
    /\ Len(rules) >= 1
    /\ status[1] = "ok"
    /\ Len(RequestsOf(1)) = 2
    /\ requests[2].model = "gpt-4-turbo"
    /\ ParsesAsJson(lastReply)

QuotaOrUnavailable(p, e) ==
    isQuotaError(Extract(p, e)) \/ isModelNotFoundError(p, Extract(p, e))

(* C5: also with a pinned model, a rule whose request failed with a        *)
(* quota/rate-limit or model-unavailable error has requested a further     *)
(* model before it fails.                                                  *)
C5_PinnedTransientErrorFallsBack ==
    (/\ modelName # NoModel
     /\ Len(requests) >= 1
     /\ lastReply.kind = "error"
     /\ QuotaOrUnavailable(activeProvider, lastReply.err)
     /\ status[LastRule] = "failed")
        => Len(RequestsOf(LastRule)) >= 2

IsInfix(a, b) ==
    \E i \in 0..(Len(b) - Len(a)) : SubSeq(b, i + 1, i + Len(a)) = a

(* C6: when every candidate model of a rule has failed, each model of the  *)
(* list was requested once in list order, the rule contributes no          *)
(* diagnostics, the run is not aborted, and the error the rule fails with  *)
(* includes the message of the last underlying error when it has one.      *)
C6_ExhaustionKeepsLastError ==
    (/\ Len(requests) >= 1
     /\ lastReply.kind = "error"
     /\ status[LastRule] = "failed"
     /\ Len(RequestsOf(LastRule)) = Len(CurrentModels))
        => /\ InOrder(RequestsOf(LastRule), CurrentModels)
           /\ DiagsOf(LastRule) = <<>>
           /\ pc # "aborted"
           /\ (lastReply.err.k = "object" /\ lastReply.err.msg # <<>>)
                 => IsInfix(lastReply.err.msg, caught.msg)

EmptyOrOtherError(p, reply) ==
    \/ reply.kind = "text" /\ reply.text = <<>>
    \/ reply.kind = "error" /\ ~QuotaOrUnavailable(p, reply.err)

(* C7: on an empty response, or on a request error that is neither a       *)
(* quota/rate-limit nor a model-unavailable error: with a pinned model the *)
(* rule fails at once, after its single request; with no pinned model the  *)
(* case is logged and the next candidate model is the next one requested   *)
(* (the rule fails when there is no further candidate).                    *)
C7_PinnedFailsUnpinnedAdvances ==
    /\ [](pc = "loop" => modelIdx <= Len(CurrentModels))
    /\ [][(pc = "await" /\ EmptyOrOtherError(activeProvider, lastReply')) =>
            IF modelName # NoModel
            THEN /\ status'[ruleIdx] = "failed"
                 /\ pc' \in {"rule", "aborted"}
                 /\ requests' = requests
                 /\ Len(RequestsOf(ruleIdx)) = 1
            ELSE IF modelIdx < Len(CurrentModels)
                 THEN /\ pc' = "loop"
                      /\ modelIdx' = modelIdx + 1
                      /\ ruleIdx' = ruleIdx
                      /\ lastLog' \in {"empty-next", "error-next"}
                 ELSE status'[ruleIdx] = "failed"]_vars

C7_Witness ==
    /\ modelName = NoModel
    /\ pc = "await"
    /\ modelIdx = 3
    /\ lastReply.kind = "error"
    /\ EmptyOrOtherError(activeProvider, lastReply)
    /\ lastLog = "error-next"
    /\ Len(RequestsOf(ruleIdx)) = 3

Carries(e, c) == e.status = c \/ e.code = c

(* C8: for both providers, a request error that carries status or code     *)
(* 429, or whose message contains "quota" or "rate limit", is handled as   *)
(* a quota/rate-limit error, and one that carries 404, or whose message    *)
(* contains "not found" or "not supported", as a model-unavailable error.  *)
C8_SameClassificationForBothProviders ==
    (pc = "loop" /\ modelIdx > 1 /\ lastReply.kind = "error") =>
        LET e == lastReply.err
            quota == Carries(e, "429") \/ Includes(e.msg, "quota") \/ Includes(e.msg, "rate limit")
            unavailable == Carries(e, "404") \/ Includes(e.msg, "not found")
                              \/ Includes(e.msg, "not supported")
        IN /\ quota => lastLog = "quota-next"
           /\ (unavailable /\ ~quota) => lastLog = "unavailable-next"

OutcomeIs(i, f) ==
    /\ status[i] = (IF f.err = NoError THEN "ok" ELSE "failed")
    /\ DiagsOf(i) = f.diags

(* C9: for either provider, a response that is a JSON payload wrapped in a *)
(* json code fence is processed like the payload itself: the rule ends as  *)
(* it ends on the unwrapped payload, with the same diagnostics.            *)
C9_FencedProcessedLikeUnwrapped ==
    \A d \in JsonDocs :
        (Len(requests) >= 1 /\ pc # "await" /\ lastReply = Replied(Fenced(Stringify(d))))
            => OutcomeIs(LastRule, Finish(rules[LastRule], d))

(* C10: a response that is the bare JSON array A ends the rule as the      *)
(* response {issues: A} does: same success or failure, same diagnostics.   *)
C10_BareArrayLikeIssuesObject ==
    \A A \in IssueArrays :
        (Len(requests) >= 1 /\ pc # "await" /\ lastReply = Replied(Stringify(BareArray(A))))
            => LET a == Attempt(activeProvider, modelName, requests[Len(requests)].model,
                                Replied(Stringify(IssuesObject(A))), NoError)
               IN /\ a.kind = "success"
                  /\ OutcomeIs(LastRule, Finish(rules[LastRule], a.json))

C10_Witness ==
    /\ Len(requests) >= 1
    /\ lastReply = Replied(Stringify(BareArray(<<"E1">>)))
    /\ status[LastRule] = "ok"
    /\ Len(DiagsOf(LastRule)) = 1

(* The document the rule of the last request works on: the parsed         *)
(* response after the array coercion.                                      *)
LastAttempt ==
    Attempt(activeProvider, modelName, requests[Len(requests)].model, lastReply, NoError)

Answered ==
    Len(requests) >= 1 /\ pc # "await" /\ lastReply.kind = "text" /\ LastAttempt.kind = "success"

Normalized == CoerceArray(LastAttempt.json)

HasIssuesArray(doc) == doc.t = "obj" /\ doc.iss = "array"

(* C11: when the normalized response fails the strict validation against   *)
(* the rule's schema but is an object whose issues field is an array, the  *)
(* rule succeeds with one diagnostic per element of the array, mapped from *)
(* the element as it is; when it fails the validation and has no such      *)
(* array, the rule fails and contributes no diagnostics.                   *)
C11_SchemaDegradation ==
    (Answered /\ ~SchemaValid(Normalized)) =>
        IF HasIssuesArray(Normalized)
        THEN /\ status[LastRule] = "ok"
             /\ Len(DiagsOf(LastRule)) = Len(Normalized.items)
             /\ \A k \in 1..Len(Normalized.items) :
                    DiagsOf(LastRule)[k]
                        = ToDiagnostic(rules[LastRule], ElemTable[Normalized.items[k]])
        ELSE /\ status[LastRule] = "failed"
             /\ DiagsOf(LastRule) = <<>>

(* d carries the fields of the entry e; a line the entry does not have is  *)
(* not compared.                                                           *)
CarriesEntry(d, e) ==
    /\ d.file = e.file
    /\ (e.line # Undef => d.line = e.line)
    /\ d.problem = e.problem
    /\ d.reason = e.reason
    /\ d.suggestedToken = e.suggestedToken
    /\ d.fixedCode = e.fixedCode
    /\ d.impact = e.impact
    /\ d.tokenName = e.tokenName
    /\ d.suggestion = e.suggestion

(* C12: a rule that succeeds on a parsed response has contributed exactly  *)
(* one diagnostic per entry of issues, in the order of the entries; each   *)
(* has the id and the severity of the rule, whatever the entry says, and   *)
(* the file, line, problem, reason, suggestedToken, fixedCode, impact,     *)
(* tokenName and suggestion of its entry.                                  *)
C12_OneDiagnosticPerIssue ==
    (Answered /\ status[LastRule] = "ok") =>
        /\ HasIssuesArray(Normalized)
        /\ Len(DiagsOf(LastRule)) = Len(Normalized.items)
        /\ \A k \in 1..Len(Normalized.items) :
               LET d == DiagsOf(LastRule)[k]
               IN /\ d.ruleId = rules[LastRule].id
                  /\ d.severity = rules[LastRule].severity
                  /\ CarriesEntry(d, ElemTable[Normalized.items[k]])

C12_Witness ==
    /\ Answered
    /\ status[LastRule] = "ok"
    /\ lastReply = Replied(Stringify(IssuesObject(<<"E3", "E1">>)))
    /\ Len(DiagsOf(LastRule)) = 2
    /\ DiagsOf(LastRule)[1].file = "a.css"
    /\ DiagsOf(LastRule)[1].severity = "warn"
    /\ DiagsOf(LastRule)[2].tokenName = "color.primary"

OnlyThree(e) ==
    /\ e.t = "obj"
    /\ e.tokenName # Undef /\ e.problem # Undef /\ e.suggestion # Undef
    /\ e.message = Undef /\ e.line = Undef /\ e.file = Undef /\ e.reason = Undef
    /\ e.suggestedToken = Undef /\ e.fixedCode = Undef /\ e.impact = Undef
    /\ e.ruleId = Undef /\ e.severity = Undef

(* C13: the diagnostic of a response issue that has only tokenName,        *)
(* problem and suggestion has the rule's id and severity, the problem as   *)
(* message, the tokenName and the suggestion, and no other field with a    *)
(* defined value (the deep equality of the runner's test).                 *)
C13_DiagnosticEqualsTestExpectation ==
    (Answered /\ status[LastRule] = "ok") =>
        \A k \in 1..Len(Normalized.items) :
            LET e == ElemTable[Normalized.items[k]]
                d == DiagsOf(LastRule)[k]
            IN OnlyThree(e) =>
                  /\ d.ruleId = rules[LastRule].id
                  /\ d.severity = rules[LastRule].severity
                  /\ d.message = e.problem
                  /\ d.tokenName = e.tokenName
                  /\ d.suggestion = e.suggestion
                  /\ d.line = Undef
                  /\ d.problem = Undef
                  /\ d.file = Undef
                  /\ d.reason = Undef
                  /\ d.suggestedToken = Undef
                  /\ d.fixedCode = Undef
                  /\ d.impact = Undef

(* C14: the rules run one after the other in list order: a request is     *)
(* issued only while no other request is outstanding, it belongs to the    *)
(* rule the loop is at, every earlier rule has succeeded or failed by      *)
(* then, and at most one request is outstanding in every state.            *)
C14_StrictlySequential ==
    /\ [](Cardinality(pending) <= 1)
    /\ [](\A k \in 1..(Len(requests) - 1) : requests[k].rule <= requests[k + 1].rule)
    /\ [][requests' # requests =>
            /\ pending = {}
            /\ requests' = Append(requests, requests'[Len(requests')])
            /\ requests'[Len(requests')].rule = ruleIdx
            /\ \A j \in 1..(ruleIdx - 1) : status[j] \in {"ok", "failed"}
            /\ status[ruleIdx] = "pending"]_vars

C14_Witness ==
    /\ Len(rules) = 2
    /\ pc = "await"
    /\ ruleIdx = 2
    /\ Cardinality(pending) = 1
    /\ Len(RequestsOf(1)) = 4
    /\ Len(RequestsOf(2)) = 2
    /\ status[1] = "failed"

RECURSIVE ConcatDiagsOf(_)
ConcatDiagsOf(n) == IF n = 0 THEN <<>> ELSE ConcatDiagsOf(n - 1) \o DiagsOf(n)

StaticOf(id) == SelectSeq(staticDiagnostics, LAMBDA d : d.ruleId = id)

(* C15: the list a lint run reports is the static diagnostics followed by  *)
(* the AI diagnostics: the static ones are those of naming-convention,     *)
(* then raw-color, then raw-pixel, the AI ones those of the first rule,    *)
(* then of the second, and so on, each group in the order in which its     *)
(* rule produced it; nothing is dropped, merged or moved.                  *)
C15_StaticThenAIInGenerationOrder ==
    lpc = "exit" =>
        /\ diags = staticDiagnostics \o diagnostics
        /\ staticDiagnostics = StaticOf("naming-convention") \o StaticOf("raw-color")
                                   \o StaticOf("raw-pixel")
        /\ StaticOf("naming-convention")
              = (IF config["naming-convention"].present
                 THEN ruleNamingConvention(tokens, config["naming-convention"].pattern,
                                           config["naming-convention"].severity)
                 ELSE <<>>)
        /\ StaticOf("raw-color")
              = (IF "raw-color" \in evaluated
                 THEN detectRawColors(codeFiles.files, tokens, config["raw-color"].severity).diags
                 ELSE <<>>)
        /\ StaticOf("raw-pixel")
              = (IF "raw-pixel" \in evaluated
                 THEN detectRawPixels(codeFiles.files, tokens, config["raw-pixel"].severity)
                 ELSE <<>>)
        /\ diagnostics = ConcatDiagsOf(Len(rules))

C15_Witness ==
    /\ lpc = "exit"
    /\ Len(staticDiagnostics) = 3
    /\ Len(diagnostics) = 2
    /\ diags[1].ruleId = "naming-convention"
    /\ diags[2].ruleId = "raw-color"
    /\ diags[3].ruleId = "raw-pixel"
    /\ diags[4].ruleId = "ai-semantic-naming"
    /\ diags[5].ruleId = "ai-spacing-consistency"

Configured(id) ==
    /\ config[id].present
    /\ id # "naming-convention" => config[id].enabled /\ codeFiles.given

(* C16: an error thrown while one static rule is evaluated stays local to  *)
(* that rule: runStaticRules does not throw, and when it returns every     *)
(* configured rule has been evaluated.                                     *)
C16_StaticRuleErrorsAreLocal ==
    /\ spc # "thrown"
    /\ spc = "done" => \A id \in StaticRuleIds : Configured(id) => id \in evaluated

(* C17: a static rule whose id is absent from config is not evaluated and *)
(* emits no diagnostic, and a rule whose id is present in config (code     *)
(* files supplied) is evaluated.                                           *)
C17_PresenceEnables ==
    spc = "done" =>
        \A id \in StaticRuleIds :
            /\ ~config[id].present => (id \notin evaluated /\ StaticOf(id) = <<>>)
            /\ (config[id].present /\ codeFiles.given) => id \in evaluated

NamingEvaluated ==
    spc \in {"color", "pixel", "return", "done"} /\ config["naming-convention"].present

(* The names of the first n tokens that do not match the pattern.          *)
RECURSIVE NonMatching(_)
NonMatching(n) ==
    IF n = 0 THEN <<>>
    ELSE IF PatternTest(config["naming-convention"].pattern, tokens[n].name)
         THEN NonMatching(n - 1)
         ELSE Append(NonMatching(n - 1), tokens[n].name)

IsCleanSuggestion(s) ==
    \A i \in 1..Len(s) : ~IsUpperLetter(s[i]) /\ s[i] # "_" /\ ~IsWhitespace(s[i])

(* C18: after the naming-convention rule ran, its diagnostics are one per  *)
(* token whose name does not match the configured pattern, in token order  *)
(* and none for a token whose name matches; each has the configured        *)
(* severity and a suggestion without uppercase letters, underscores and    *)
(* whitespace.                                                             *)
C18_NamingConvention ==
    NamingEvaluated =>
        LET ds == StaticOf("naming-convention")
        IN /\ [k \in 1..Len(ds) |-> ds[k].tokenName] = NonMatching(Len(tokens))
           /\ \A k \in 1..Len(ds) :
                  /\ ds[k].severity = config["naming-convention"].severity
                  /\ IsCleanSuggestion(ds[k].suggestion)

C18_Witness ==
    /\ spc = "done"
    /\ config["naming-convention"] = NamingConfig("warn", "readme")
    /\ Len(tokens) = 2
    /\ tokens[1].name = <<"_", "_", "B">>
    /\ tokens[2].name = <<"a", ".", "a">>
    /\ Len(staticDiagnostics) = 1
    /\ staticDiagnostics[1].suggestion = <<"-", "-", "b">>

ColorEvaluated ==
    spc \in {"pixel", "return", "done"} /\ "raw-color" \in evaluated

SameIgnoringCase(a, b) ==
    Len(a) = Len(b) /\ \A i \in 1..Len(a) : Lower(a[i]) = Lower(b[i])

(* The raw values of the color tokens that are strings.                    *)
ColorTokenValues ==
    {tokens[i].rawValue.s : i \in {j \in 1..Len(tokens) :
        tokens[j].type = "color" /\ tokens[j].rawValue.k = "string"}}

(* The color literals of the code files, with file and line.               *)
CodeColors ==
    UNION {{[file |-> codeFiles.files[f].path, line |-> c.line, value |-> c.value] :
               c \in {extractRawColors(codeFiles.files[f].content)[k] :
                         k \in 1..Len(extractRawColors(codeFiles.files[f].content))}} :
           f \in 1..Len(codeFiles.files)}

ReportedAsRawColor(c) ==
    \E k \in 1..Len(StaticOf("raw-color")) :
        /\ StaticOf("raw-color")[k].file = c.file
        /\ StaticOf("raw-color")[k].line = c.line
        /\ StaticOf("raw-color")[k].problem = <<"raw color">> \o c.value

HexCaseInsensitive ==
    ColorEvaluated =>
        \A c \in CodeColors :
            (At(c.value, 1, "#") /\ \E v \in ColorTokenValues : SameIgnoringCase(v, c.value))
                => ~ReportedAsRawColor(c)

NormalizeIdempotent ==
    ColorEvaluated =>
        \A v \in ColorTokenValues \cup {c.value : c \in CodeColors} :
            normalizeColorValue(normalizeColorValue(v)) = normalizeColorValue(v)

(* C19: after the raw-color rule ran, a hex literal of the code that       *)
(* differs from the raw value of a color token only in letter case has no  *)
(* raw-color diagnostic, and normalizing the raw value of a color token or *)
(* a color literal of the code twice gives what normalizing it once gives. *)
C19_CaseInsensitiveAndIdempotent ==
    HexCaseInsensitive /\ NormalizeIdempotent

(* The code lines whose color literals are known by construction: what    *)
(* the line is rendered from, not what the extractor finds in it.          *)
KnownLine(text, comment, lits) == [text |-> text, comment |-> comment, lits |-> lits]

KnownLines ==
    {KnownLine(Render(ls), ls.prefix \in CommentPrefixes, ls.lits) : ls \in LineSpecs}
        \cup {KnownLine(Render(LineSpec(<<>>, <<<<"#", "f", "f", "f">>>>)), FALSE,
                        <<<<"#", "f", "f", "f">>>>),
              KnownLine(<<"const", " ", "c", " ", "=", " ", "'", "#", "0", "0", "0", "'">>,
                        FALSE, <<<<"#", "0", "0", "0">>>>)}

TokenNormalizedValues == {normalizeColorValue(v) : v \in ColorTokenValues}

Unmatched(kl) ==
    IF kl.comment THEN {}
    ELSE {j \in 1..Len(kl.lits) : normalizeColorValue(kl.lits[j]) \notin TokenNormalizedValues}

RawColorsAt(path, l) ==
    {k \in 1..Len(StaticOf("raw-color")) :
        StaticOf("raw-color")[k].file = path /\ StaticOf("raw-color")[k].line = l}

LineReported(path, l, kl) ==
    /\ Cardinality(RawColorsAt(path, l)) = Cardinality(Unmatched(kl))
    /\ \A j \in Unmatched(kl) :
           \E k \in RawColorsAt(path, l) :
               StaticOf("raw-color")[k].problem = <<"raw color">> \o kl.lits[j]
    /\ \A k \in RawColorsAt(path, l) : StaticOf("raw-color")[k].suggestedToken # Undef

RawColorsReported ==
    \A f \in 1..Len(codeFiles.files) :
        LET lines == SplitLines(codeFiles.files[f].content)
        IN \A l \in 1..Len(lines) :
              \A kl \in KnownLines :
                  kl.text = lines[l] => LineReported(codeFiles.files[f].path, l, kl)

(* Restricted to the runs in which the raw-color rule returned.            *)
RawColorsReportedOnReturn == ColorEvaluated => RawColorsReported

(* C20: once the raw-color rule was called on the code files, every line   *)
(* has exactly one raw-color diagnostic per color literal on it whose      *)
(* normalized value is no color token's normalized value, with the file,   *)
(* the 1-based line number and a suggestedToken, and a line that after     *)
(* trimming starts with // or * has none.                                  *)
C20_OneDiagnosticPerRawColor ==
    "raw-color" \in evaluated => RawColorsReported

PixelEvaluated == spc \in {"return", "done"} /\ "raw-pixel" \in evaluated

(* The indices of the spacing or size tokens with a numeric value.         *)
ValuedSpacingTokens ==
    {i \in 1..Len(tokens) :
        /\ \/ tokens[i].type \in {"spacing", "size"}
           \/ \E j \in 1..Len(tokens[i].name) : tokens[i].name[j] \in {"spacing", "size"}
        /\ TokenValue(tokens[i]) # NaN}

(* The px literals of the code files, with file and line.                  *)
CodePixels ==
    UNION {{[file |-> codeFiles.files[f].path, line |-> p.line, value |-> p.value] :
               p \in {extractRawPixels(codeFiles.files[f].content)[k] :
                         k \in 1..Len(extractRawPixels(codeFiles.files[f].content))}} :
           f \in 1..Len(codeFiles.files)}

RawPixelsFor(p) ==
    {k \in 1..Len(StaticOf("raw-pixel")) :
        /\ StaticOf("raw-pixel")[k].file = p.file
        /\ StaticOf("raw-pixel")[k].line = p.line
        /\ StaticOf("raw-pixel")[k].problem = <<"raw pixel">> \o p.value}

(* In hundredths: 10 is 0.1.                                               *)
HasTokenWithin(p) ==
    \E i \in ValuedSpacingTokens : AbsDiff(TokenValue(tokens[i]), ParseFloat(p.value)) < 10

ReportedIffNoTokenWithin ==
    \A p \in CodePixels : (RawPixelsFor(p) # {}) <=> ~HasTokenWithin(p)

IsClosestTo(name, p) ==
    \E i \in ValuedSpacingTokens :
        /\ tokens[i].name = name
        /\ \A j \in ValuedSpacingTokens :
               AbsDiff(TokenValue(tokens[i]), ParseFloat(p.value))
                   <= AbsDiff(TokenValue(tokens[j]), ParseFloat(p.value))

(* C21: after the raw-pixel rule ran, a px literal of the code has a       *)
(* raw-pixel diagnostic if and only if no spacing or size token has a      *)
(* value within 0.1 of it, and the suggestedToken of the diagnostic is a   *)
(* spacing or size token whose value is closest to the literal's.          *)
C21_SuggestsClosestToken ==
    PixelEvaluated =>
        /\ ReportedIffNoTokenWithin
        /\ \A p \in CodePixels : \A k \in RawPixelsFor(p) :
               IsClosestTo(StaticOf("raw-pixel")[k].suggestedToken, p)

(* C21, amended: the same, and when no spacing or size token has a numeric *)
(* value the suggestedToken is the fixed name spacing.md.                  *)
C21_SuggestsClosestTokenOrDefault ==
    PixelEvaluated =>
        /\ ReportedIffNoTokenWithin
        /\ \A p \in CodePixels : \A k \in RawPixelsFor(p) :
               IF ValuedSpacingTokens = {}
               THEN StaticOf("raw-pixel")[k].suggestedToken = <<"spacing", ".", "md">>
               ELSE IsClosestTo(StaticOf("raw-pixel")[k].suggestedToken, p)

C21_Witness ==
    /\ spc = "done"
    /\ Len(tokens) = 2
    /\ tokens[1].name = <<"size", ".", "lg">>
    /\ \E p \in CodePixels :
           /\ p.value = <<"8", "px">>
           /\ \E k \in RawPixelsFor(p) :
                  StaticOf("raw-pixel")[k].suggestedToken = <<"spacing", ".", "md">>
    /\ \E p \in CodePixels : p.value = <<"2", "4", ".", "0", "5", "px">> /\ RawPixelsFor(p) = {}

(* The member of node n under key, when it is there and not null.         *)
Given(n, key) ==
    \E i \in 1..Len(n.members) : n.members[i].key = key /\ n.members[i].val.k # "null"

GivenValue(n, key) ==
    n.members[CHOOSE i \in 1..Len(n.members) : n.members[i].key = key].val

StartsWithHash(v) == v.k = "string" /\ Len(v.s) >= 1 /\ v.s[1] = "#"

(* C22: every token loadTokensFromJson returns has a type: the type of its *)
(* node when it gives one, else its $type when it gives one, else color    *)
(* when the raw value is a string that starts with #, else other.          *)
C22_TypeNeverAbsent ==
    tpc = "returned" =>
        \A i \in 1..Len(loaded) :
            LET t == loaded[i]
            IN /\ t.type.k \notin {"undefined", "null"}
               /\ t.type = IF Given(t.meta, <<"type">>) THEN GivenValue(t.meta, <<"type">>)
                           ELSE IF Given(t.meta, <<"$type">>) THEN GivenValue(t.meta, <<"$type">>)
                           ELSE IF StartsWithHash(t.rawValue) THEN JString(<<"color">>)
                           ELSE JString(<<"other">>)

C22_Witness ==
    /\ tpc = "returned"
    /\ Len(loaded) = 2
    /\ loaded[1].type = JString(<<"color">>)
    /\ ~HasKey(loaded[1].meta, <<"type">>)
    /\ \E d \in {tokensJson} : Len(d.members) = 2

(* C23: no two tokens loadTokensFromJson returns have the same name.       *)
C23_NamesUnique ==
    tpc = "returned" =>
        \A i, j \in 1..Len(loaded) : i # j => loaded[i].name # loaded[j].name

(* The paths of keys, from the root, of the nodes below node that have a   *)
(* value or a $value member.                                               *)
RECURSIVE ValuePaths(_, _)
ValuePaths(node, path) ==
    UNION {LET m == node.members[i]
               p == Append(path, m.key)
           IN (IF m.val.k \in {"object", "array"}
                  /\ \E j \in 1..Len(m.val.members) :
                         m.val.members[j].key \in {<<"value">>, <<"$value">>}
               THEN {p} ELSE {}) \cup ValuePaths(m.val, p) : i \in 1..Len(node.members)}

RECURSIVE DotJoin(_)
DotJoin(path) ==
    IF Len(path) = 0 THEN <<>>
    ELSE IF Len(path) = 1 THEN path[1]
    ELSE path[1] \o <<".">> \o DotJoin(Tail(path))

LoadedMatchesValueNodes ==
    /\ Len(loaded) = Cardinality(ValuePaths(tokensJson, <<>>))
    /\ {loaded[i].name : i \in 1..Len(loaded)}
           = {DotJoin(p) : p \in ValuePaths(tokensJson, <<>>)}

(* A document without null outside the token nodes, without empty keys and *)
(* without a value node inside a token node.                               *)
PlainDocument ==
    /\ tpc = "returned"
    /\ \A p \in ValuePaths(tokensJson, <<>>) :
           /\ \A i \in 1..Len(p) : p[i] # <<>>
           /\ \A q \in ValuePaths(tokensJson, <<>>) :
                  Len(q) >= Len(p) \/ SubSeq(p, 1, Len(q)) # q

LoadedMatchesOnPlainDocuments == PlainDocument => LoadedMatchesValueNodes

(* C24: for every document loadTokensFromJson returns, with one token for  *)
(* each node that has a value or $value member, named by the keys on the   *)
(* path to the node joined with dots, and no other token.                  *)
C24_OneTokenPerValueNode ==
    tpc # "walk" => (tpc = "returned" /\ LoadedMatchesValueNodes)

BrokenCustomRule ==
    \E i \in 1..Len(customRules) : customRules[i].prompt # "ok" \/ customRules[i].schema # "ok"

(* C25: a lint run that loads its custom rules and finds the prompt file   *)
(* or the schema file of one of them missing or unreadable ends in         *)
(* failure through the error handler, with exit code 1.                    *)
C25_BrokenCustomRuleIsFatal ==
    (lpc \in {"exit", "failed"} /\ pc # "idle" /\ BrokenCustomRule)
        => (lpc = "failed" /\ exitCode = "1")

(* The run came to the printing of its diagnostics.                        *)
ReachedReport ==
    \/ lpc = "exit"
    \/ lpc = "failed" /\ spc # "thrown" /\ pc # "aborted"

(* C26: a lint run that reached its reporting step exits with 1 when one   *)
(* of its diagnostics has severity error, and with 0 otherwise.            *)
C26_ExitCodeFollowsErrors ==
    ReachedReport =>
        exitCode = IF \E i \in 1..Len(diags) : diags[i].severity = "error" THEN "1" ELSE "0"

(* C27: every diagnostic of the list a lint run reports has severity       *)
(* error, warn or info.                                                    *)
C27_SeverityInEnum ==
    (lpc = "report" \/ ReachedReport) =>
        \A i \in 1..Len(diags) : diags[i].severity \in {"error", "warn", "info"}

(* C30: the tokens a lint run passes on to the AI layer are the loaded     *)
(* tokens, all of them and in their order, whatever the static diagnostics *)
(* are.                                                                    *)
C30_CandidatesAreAllTokens ==
    lpc \in {"ai", "report", "exit", "failed"} /\ ~(lpc = "failed" /\ spc = "thrown")
        => candidateTokens = tokens

C30_Witness ==
    /\ lpc = "ai"
    /\ pc = "done"
    /\ Len(tokens) = 2
    /\ Len(staticDiagnostics) >= 1
    /\ staticDiagnostics[1].ruleId = "naming-convention"
    /\ staticDiagnostics[1].tokenName = tokens[2].name
    /\ candidateTokens = tokens


(* The prompt was built: by runCustomPrompt for its request, or by the     *)
(* prompt builder of a custom rule.                                        *)
PromptBuilt == ppc \in {"request", "built"}

StartsWith(s, p) == Len(s) >= Len(p) /\ SubSeq(s, 1, Len(p)) = p

EndsWith(s, p) == Len(s) >= Len(p) /\ SubSeq(s, Len(s) - Len(p) + 1, Len(s)) = p

(* What a custom rule adds after the templated prompt: the code files.     *)
CodeFilesPart ==
    IF ppc = "built" /\ Len(promptFiles) > 0
    THEN <<"\n\n", "Code Files:", "\n">> \o CodeFilesContext(promptFiles)
    ELSE <<>>

(* The prompt without the code files part.                                 *)
TemplatedPart == SubSeq(finalPrompt, 1, Len(finalPrompt) - Len(CodeFilesPart))

(* C28: if the prompt text contains the {{TOKENS}} placeholder, the        *)
(* placeholder is substituted by the serialized token context at its      *)
(* position and the rest of the prompt text is unchanged; otherwise the    *)
(* prompt text is kept and the token context is appended to its end.       *)
C28_PlaceholderSubstitutedOrContextAppended ==
    PromptBuilt =>
        LET i == FirstIndex(promptText, Placeholder)
            context == TokensContext(promptTokens)
        IN /\ EndsWith(finalPrompt, CodeFilesPart)
           /\ IF i # 0
              THEN TemplatedPart = SubSeq(promptText, 1, i - 1) \o context
                                       \o SubSeq(promptText, i + 1, Len(promptText))
              ELSE /\ StartsWith(TemplatedPart, promptText)
                   /\ EndsWith(TemplatedPart, context)
                   /\ ~Includes(SubSeq(TemplatedPart, Len(promptText) + 1,
                                       Len(TemplatedPart) - Len(context)), Placeholder)

(* The issue holds the members of the diagnostic that have a value, and    *)
(* no other member.                                                        *)
IssueOf(issue, d) ==
    \A f \in DOMAIN NoDiagnostic :
        IF d[f] = Undef THEN f \notin DOMAIN issue
        ELSE f \in DOMAIN issue /\ issue[f] = d[f]

NumberOfSeverity(s) ==
    Cardinality({i \in 1..Len(reportDiagnostics) : reportDiagnostics[i].severity = s})

(* C29: the report of generateJSONReport has one issue per diagnostic, in  *)
(* the order of the diagnostics, and its summary counts the diagnostics:   *)
(* total all of them, errors, warnings and info those of severity error,   *)
(* warn and info.                                                          *)
C29_ReportMatchesDiagnostics ==
    rpc = "returned" =>
        /\ Len(jsonString.issues) = Len(reportDiagnostics)
        /\ \A i \in 1..Len(reportDiagnostics) : IssueOf(jsonString.issues[i], reportDiagnostics[i])
        /\ jsonString.summary.total = Len(reportDiagnostics)
        /\ jsonString.summary.errors = NumberOfSeverity("error")
        /\ jsonString.summary.warnings = NumberOfSeverity("warn")
        /\ jsonString.summary.info = NumberOfSeverity("info")

(* A report of three diagnostics of two rules, with a warning before an    *)
(* error and a severity that the summary does not count, written to the    *)
(* output file.                                                            *)
C29_Witness ==
    /\ rpc = "returned"
    /\ outputPath # NoPath
    /\ written = jsonString
    /\ Len(reportDiagnostics) = 3
    /\ reportDiagnostics[1].severity = "warn" /\ reportDiagnostics[1].ruleId = "raw-color"
    /\ reportDiagnostics[2].severity = "error" /\ reportDiagnostics[2].ruleId = "naming-convention"
    /\ reportDiagnostics[3].severity = "critical"
    /\ jsonString.summary = [total |-> 3, errors |-> 1, warnings |-> 1, info |-> 0]


(* C31: the list runAIRules returns holds no diagnostic of a rule that     *)
(* failed: a rule that fails part-way through its issue mapping leaves no  *)
(* partial output.                                                         *)
C31_FailedRuleLeavesNoDiagnostics ==
    pc = "done" => \A i \in 1..Len(rules) : status[i] = "failed" => DiagsOf(i) = <<>>

(* The text the branch of the provider hands to JSON.parse does not parse. *)
Unparsable(p, reply) ==
    /\ reply.kind = "text"
    /\ reply.text # <<>>
    /\ IF p = "gemini"
       THEN StripFences(reply.text) # <<>> /\ JsonParse(StripFences(reply.text)) = ParseFailed
       ELSE JsonParse(reply.text) = ParseFailed

(* C32: a response that is not empty and does not parse as JSON is a       *)
(* failed attempt: it adds no diagnostic; with no pinned model and a       *)
(* further candidate the rule goes on to the next model; with a pinned     *)
(* model, or after the last candidate, the rule fails, every model of its  *)
(* list has been requested, and the run goes on with the next rule.        *)
C32_UnparsableResponseIsFailedAttempt ==
    [][(pc = "await" /\ pc' # "await" /\ Unparsable(activeProvider, lastReply')) =>
          /\ diagnostics' = diagnostics
          /\ requests' = requests
          /\ IF modelName = NoModel /\ Len(RequestsOf(ruleIdx)) < Len(C4_DefaultModels(activeProvider))
             THEN /\ pc' = "loop"
                  /\ modelIdx' = modelIdx + 1
                  /\ ruleIdx' = ruleIdx
                  /\ status'[ruleIdx] = "pending"
             ELSE /\ status'[ruleIdx] = "failed"
                  /\ Len(RequestsOf(ruleIdx)) = (IF modelName # NoModel THEN 1 ELSE 4)
                  /\ pc' = "rule"
                  /\ ruleIdx' = ruleIdx + 1]_vars

(* A rule without pinned model that failed after four requests, the last   *)
(* of them answered by a text that is not JSON.                            *)
C32_Witness ==
    /\ modelName = NoModel
    /\ Len(rules) >= 1
    /\ pc = "rule"
    /\ status[1] = "failed"
    /\ Len(RequestsOf(1)) = 4
    /\ lastReply = Replied(<<"Invalid", "JSON">>)
    /\ diagnostics = <<>>

(* C33: nothing is carried from one rule to the next: the k-th request of  *)
(* every rule goes to the k-th model of the candidate list, whatever the   *)
(* earlier rules requested, and a rule that has not yet issued a request   *)
(* starts with the first model, no recorded error and no content.          *)
C33_RulesStartFresh ==
    /\ \A i \in 1..Len(rules) :
          \A k \in 1..Len(RequestsOf(i)) :
              /\ k <= Len(ModelNames(activeProvider, modelName))
              /\ RequestsOf(i)[k].model = ModelNames(activeProvider, modelName)[k]
    /\ (pc = "loop" /\ RequestsOf(ruleIdx) = <<>>) =>
          /\ modelIdx = 1
          /\ lastError = NoError
          /\ jsonContent = JsonUndefined

(* The second rule has issued its first request, to the first model,       *)
(* after the first rule succeeded with the third model of the list.        *)
C33_Witness ==
    /\ Len(rules) = 2
    /\ modelName = NoModel
    /\ pc = "await"
    /\ ruleIdx = 2
    /\ status[1] = "ok"
    /\ Len(RequestsOf(1)) = 3
    /\ Len(RequestsOf(2)) = 1
    /\ requests[4].model = ModelNames(activeProvider, modelName)[1]


ListLength == IF modelName # NoModel THEN 1 ELSE 4

EveryRuleEnded == pc = "done" /\ \A i \in 1..Len(rules) : status[i] \in {"ok", "failed"}

(* C34: when every request returns or throws, a run with credentials ends  *)
(* with every rule succeeded or failed; each rule issues at most as many   *)
(* requests as its candidate list is long (4, or 1 with a pinned model),   *)
(* requests no model twice, and the run issues at most (number of rules)   *)
(* times (list length) requests.                                           *)
C34_EveryRuleEndsWithinRequestBound ==
    /\ ~NoCredentials => <>EveryRuleEnded
    /\ [](\A i \in 1..Len(rules) :
             /\ Len(RequestsOf(i)) <= ListLength
             /\ \A j, k \in 1..Len(RequestsOf(i)) :
                    j # k => RequestsOf(i)[j].model # RequestsOf(i)[k].model)
    /\ [](Len(requests) <= Len(rules) * ListLength)


(* The issues the mapping loop of the last rule iterates: the entries of   *)
(* the validated response, or of the salvaged issues array.                *)
MappedIssues == Validate(rules[LastRule], Normalized).items

(* C35: the message of an AI diagnostic is the problem of its issue when   *)
(* the issue has one that is not empty, otherwise the message of the       *)
(* issue, otherwise the empty string; its line is the line of the issue    *)
(* when the issue has one, and null otherwise.                             *)
C35_MessageAndLineOfIssue ==
    (Answered /\ status[LastRule] = "ok") =>
        /\ Len(DiagsOf(LastRule)) = Len(MappedIssues)
        /\ \A k \in 1..Len(MappedIssues) :
               LET e == MappedIssues[k]
                   d == DiagsOf(LastRule)[k]
               IN /\ d.message = (IF e.problem # Undef /\ e.problem # "" THEN e.problem
                                  ELSE IF e.message # Undef THEN e.message
                                  ELSE "")
                  /\ d.line = (IF e.line # Undef THEN e.line ELSE "null")

(* A salvaged response of two issues: one with a message and a line and    *)
(* no problem, one with an empty problem, a message and no line.           *)
C35_Witness ==
    /\ Answered
    /\ status[LastRule] = "ok"
    /\ lastReply = Replied(Stringify(IssuesObject(<<"E2", "E4">>)))
    /\ Len(DiagsOf(LastRule)) = 2
    /\ DiagsOf(LastRule)[1].message = "M2"
    /\ DiagsOf(LastRule)[1].line = "3"
    /\ DiagsOf(LastRule)[2].message = "M4"
    /\ DiagsOf(LastRule)[2].line = "null"


(* C36: no step of a lint run changes the token array, a token or the code *)
(* files: not the static rules, not selectAICandidates, not runAIRules     *)
(* with its prompt builder calls; the tokens runAIRules builds its context *)
(* from are these tokens, and they are the same at every prompt builder    *)
(* call of the run.                                                        *)
C36_TokensReadOnly ==
    /\ [][tokens' = tokens /\ codeFiles' = codeFiles]_allVars
    /\ [][(lpc \in {"ai", "report", "exit", "failed"}) => (candidateTokens' = candidateTokens)]_allVars
    /\ [][(promptCalls' # promptCalls) => (candidateTokens = tokens /\ lpc = "ai")]_allVars

(* The prompt builders of two rules were called in a run whose static      *)
(* rules looked at two tokens and a code file.                             *)
C36_Witness ==
    /\ lpc = "ai"
    /\ Len(promptCalls) >= 2
    /\ Len(tokens) = 2
    /\ codeFiles.given
    /\ "raw-pixel" \in evaluated
    /\ candidateTokens = tokens


(* fixed is content with the occurrence m (its value at its line and       *)
(* column) replaced by a token reference, and nothing else changed.        *)
FixedAt(content, m, fixed) ==
    LET lines == SplitLines(content)
        fixedLines == SplitLines(fixed)
        line == lines[m.line]
        before == SubSeq(line, 1, m.column - 1)
        after == SubSeq(line, m.column + Len(m.value), Len(line))
    IN /\ Len(fixedLines) = Len(lines)
       /\ \A l \in 1..Len(lines) : l # m.line => fixedLines[l] = lines[l]
       /\ Len(fixedLines[m.line]) > Len(before) + Len(after)
       /\ StartsWith(fixedLines[m.line], before)
       /\ EndsWith(fixedLines[m.line], after)
       /\ fixedLines[m.line][Len(before) + 1] \in {"var(", "token"}

(* The occurrences of the literal of d that the extraction finds at the    *)
(* line of d, in the order of the extraction.                              *)
FlaggedLiteral(d) == SubSeq(d.problem, 2, Len(d.problem))

OccurrencesFor(d, f) ==
    SelectSeq(IF d.ruleId = "raw-color" THEN extractRawColors(f.content)
              ELSE extractRawPixels(f.content),
              LAMBDA m : m.line = d.line /\ m.value = FlaggedLiteral(d))

(* The diagnostics up to the k-th that flag the same literal at the same   *)
(* line of the same file: the k-th diagnostic is about the occurrence of   *)
(* that number.                                                            *)
OccurrenceNumber(k) ==
    Cardinality({i \in 1..k :
        /\ staticDiagnostics[i].ruleId = staticDiagnostics[k].ruleId
        /\ staticDiagnostics[i].file = staticDiagnostics[k].file
        /\ staticDiagnostics[i].line = staticDiagnostics[k].line
        /\ staticDiagnostics[i].problem = staticDiagnostics[k].problem})

(* C37: the fixedCode of a raw-color or raw-pixel diagnostic is the        *)
(* content of its file with the flagged occurrence, the literal at the     *)
(* line and column where the extraction found it, replaced by a token      *)
(* reference: every other line and every other character of that line is   *)
(* unchanged.                                                              *)
C37_FixedCodeReplacesFlaggedOccurrence ==
    \A k \in 1..Len(staticDiagnostics) :
        LET d == staticDiagnostics[k]
        IN d.ruleId \in {"raw-color", "raw-pixel"} =>
              \E j \in 1..Len(codeFiles.files) :
                  LET f == codeFiles.files[j]
                  IN /\ f.path = d.file
                     /\ OccurrenceNumber(k) <= Len(OccurrencesFor(d, f))
                     /\ FixedAt(f.content, OccurrencesFor(d, f)[OccurrenceNumber(k)], d.fixedCode)

(* The same for the diagnostics whose literal occurs once in its line, as  *)
(* a text.                                                                 *)
OccursOnce(line, value) ==
    Cardinality({i \in 1..(Len(line) - Len(value) + 1) :
                    SubSeq(line, i, i + Len(value) - 1) = value}) = 1

FixedCodeRightWhenLiteralOccursOnce ==
    \A k \in 1..Len(staticDiagnostics) :
        LET d == staticDiagnostics[k]
        IN d.ruleId \in {"raw-color", "raw-pixel"} =>
              \E j \in 1..Len(codeFiles.files) :
                  LET f == codeFiles.files[j]
                  IN /\ f.path = d.file
                     /\ OccursOnce(SplitLines(f.content)[d.line], FlaggedLiteral(d)) =>
                           /\ Len(OccurrencesFor(d, f)) = 1
                           /\ FixedAt(f.content, OccurrencesFor(d, f)[1], d.fixedCode)

(* The response content of an outcome as runCustomPrompt reads it.         *)
ContentOf(o) ==
    IF o.kind # "text" THEN <<>>
    ELSE IF PromptActiveProvider = "gemini" THEN StripPromptFences(o.text, outputJson)
    ELSE o.text

(* C38: runCustomPrompt never returns an empty string.  It returns the     *)
(* non-empty content of the first response that has one, at once; it       *)
(* throws when no credential is available, and it throws when the last     *)
(* model of the list has failed as the ones before it.                     *)
C38_CustomPromptNeverReturnsEmpty ==
    /\ [](ppc = "returned" => responseContent # <<>> /\ responseContent = ContentOf(promptReply))
    /\ [][(ppc = "request" /\ ContentOf(promptReply') # <<>>)
            => (ppc' = "returned" /\ promptModelIdx' = promptModelIdx)]_allVars
    /\ [][(ppc = "runCustomPrompt" /\ ResolvedKey(promptKey, promptEnv) = NoKey)
            => (ppc' = "thrown" /\ promptThrown' # NoError)]_allVars
    /\ [][(ppc = "request" /\ ppc' # "request" /\ ContentOf(promptReply') = <<>>)
            => (ppc' = "thrown" /\ promptThrown' # NoError /\ responseContent' = <<>>)]_allVars

(* Three Gemini models failed and the fourth answered inside a fence.      *)
C38_Witness ==
    /\ ppc = "returned"
    /\ PromptActiveProvider = "gemini"
    /\ promptModelIdx = 4
    /\ promptReply.kind = "text"
    /\ promptReply.text # responseContent

(* The Variables API answered 403 or 404.                                  *)
ForbiddenOrNotFound(r) == r.fetch = "resolves" /\ r.status \in {Http403, Http404}

VariablesFailed(r) == r.fetch # "none" /\ trySyncVariables(r).err # NoError

(* The file at outputPath is the one that was there before the call.       *)
FileUntouched == figmaFile \in {NoFile, FileOf({<<"old">>})}

(* C39: the Styles API is requested only after the Variables API failed    *)
(* with a 403 or 404 error; any other failure of the Variables API is      *)
(* rethrown and the Styles API is not requested; the file is written only  *)
(* after one of the two strategies succeeded, and it is not written when   *)
(* Variables failed with another error or when both strategies failed.     *)
C39_StylesOnlyAfterForbiddenOrNotFound ==
    /\ [](Includes(figmaRequests, "styles") =>
            /\ figmaRequests[1] = "variables"
            /\ ForbiddenOrNotFound(variablesResponse))
    /\ []((VariablesFailed(variablesResponse) /\ ~ForbiddenOrNotFound(variablesResponse)) =>
            /\ fpc = "thrown"
            /\ syncThrown = trySyncVariables(variablesResponse).err
            /\ ~Includes(figmaRequests, "styles")
            /\ FileUntouched)
    /\ [](~FileUntouched =>
            /\ fpc = "done"
            /\ figmaSource \in {"Variables", "Styles"}
            /\ figmaFile = FileOf(figmaTokens)
            /\ figmaSource = "Variables" => ~VariablesFailed(variablesResponse)
            /\ figmaSource = "Styles" => ListStyles(stylesResponse).err = NoError)
    /\ []((fpc = "thrown" /\ syncThrown = BothFailed) => FileUntouched)

(* The same with the test of the code, the message of the Variables error  *)
(* containing 403 or 404, in the place of the status of the response.      *)
SyncFallsBackOnMessage ==
    /\ [](Includes(figmaRequests, "styles") =>
            /\ figmaRequests[1] = "variables"
            /\ VariablesFailed(variablesResponse)
            /\ FallsBack(trySyncVariables(variablesResponse).err))
    /\ []((VariablesFailed(variablesResponse)
             /\ ~FallsBack(trySyncVariables(variablesResponse).err)) =>
            /\ fpc = "thrown"
            /\ syncThrown = trySyncVariables(variablesResponse).err
            /\ ~Includes(figmaRequests, "styles")
            /\ FileUntouched)
    /\ [](~FileUntouched =>
            /\ fpc = "done"
            /\ figmaSource \in {"Variables", "Styles"}
            /\ figmaFile = FileOf(figmaTokens)
            /\ figmaSource = "Variables" => ~VariablesFailed(variablesResponse)
            /\ figmaSource = "Styles" => ListStyles(stylesResponse).err = NoError)
    /\ []((fpc = "thrown" /\ syncThrown = BothFailed) => FileUntouched)

====
